---- MODULE Spec2Model ----
(***************************************************************************)
(* A model of the windowing toolkit of src/window.c: the display_run event *)
(* loop with its deferred-task list, the per-window redraw scheduling, the *)
(* surface lifecycle (draw, attach, acknowledge, free) and the pointer     *)
(* hit-testing of decorated windows.                                       *)
(*                                                                         *)
(* The program is single threaded.  Toolkit functions are atomic actions.  *)
(* Client code (the demo's handlers) runs in one of three contexts: before *)
(* display_run ("setup"), inside a task run by the dispatch loop ("event") *)
(* or inside a redraw handler called by idle_redraw ("redraw"); in each it *)
(* may call the toolkit API any number of times, one action per call.      *)
(***************************************************************************)
EXTENDS Integers, Sequences, FiniteSets, TLC

\* ---------------------------------------------------------------- bounds

MaxReady   == 2          \* descriptors epoll_wait reports ready at once
MaxOutside == 1          \* how far outside the surface pointer positions go
MaxBurst   == 3          \* cap of the history counter burst
RunCap     == 2          \* cap of the history counter iter_runs

\* The windows the client created before display_run.
Windows == {1, 2}

\* No window / no surface (the C NULL).
NULL == 0

\* Surface identities.  A window holds at most two live surfaces (drawn and
\* pending) while a third is being created, so three names per window suffice;
\* a destroyed surface's name is reused, as its memory would be.
SurfaceIds == 1..3

BufferTypes == {"EGL_WINDOW", "EGL_IMAGE", "SHM"}

VARIABLES
    window,          \* [Windows -> struct window]
    deferred_list,   \* display->deferred_list, head first
    phase,           \* where display_run is: setup, wait, dispatch, drain
    ready,           \* tasks of ready descriptors still to run in this iteration
    running,         \* the window whose redraw handler idle_redraw is running, or NULL
    \* history variables (observers; no action's guard reads them)
    arrival,         \* the tasks of deferred_list in the order display_defer got
                     \* them, each with the context and the running handler of the
                     \* window_schedule_redraw call that deferred it
    owed,            \* per window: window_schedule_redraw was called and no start
                     \* of the redraw handler has followed the call yet
    serving,         \* the arrival entry of the task idle_redraw is running
    iter_runs,       \* per window: starts of its redraw handler in this loop iteration
    burst,           \* per window: redraw+flush rounds the outstanding commit and
                     \* the drawn surface waiting behind it stand for
    fresh,           \* per window: redrawn since the last window_flush
    acked,           \* per window: the last acknowledgment ended a burst of three
                     \* rounds or more, and no redraw was made since
    last_drawn,      \* per window: the surface the latest successful redraw created
    \* pointer input and hit-testing
    shell,           \* display->shell is bound (TRUE) or NULL (FALSE)
    pwin,            \* the pointer-focus window: decoration, margin, allocation
                     \* width and height, button handler set or not
    input,           \* struct input: sx, sy
    press            \* what the input event handled last was and did: the button
                     \* and state of a button event, the location it was
                     \* classified as, the request sent to the shell, the calls
                     \* of the window's button handler (NoPress after other events)
    ,
    \* window geometry: configure, child size, fullscreen, attach offsets
    gwin,            \* one window: type, decoration, margin, the allocations,
                     \* resize_edges, its handlers, redraw scheduling, surfaces
    g_call,          \* what the operation run last was and did (history)
    pre_toggle,      \* the allocation before window_set_fullscreen entered
                     \* fullscreen, while that call is the latest operation (history)
    \* items and the item focus
    iwin,            \* one window: focus_item, item_grab_button, whether an
                     \* item-focus handler is set
    ipointer,        \* the input device: pointer focus on the window or not, sx, sy
    i_call,          \* what the event handled last was and did (history)
    \* keyboard modifiers
    kinput,          \* the input device: keyboard focus on the window or not,
                     \* modifiers
    held,            \* the keys that are physically down
    k_call,          \* the key event handled last, the mask before it, and the
                     \* keys that were down at the latest focus event (history)
    \* process start
    proc,            \* main: where it is, what display_create returned, what was
                     \* reported, created and returned
    \* windows of one display, created and destroyed
    life,            \* display->window_list, the windows and their protocol
                     \* surfaces, the input device's focus windows and modifiers,
                     \* the deferred redraw tasks and the acknowledgments still
                     \* to come; the calls of keyboard-focus handlers the
                     \* latest keyboard-focus event made (history)
    \* the pointer image
    cursor,          \* the input device: pointer focus on the window or not,
                     \* sx, sy, current_pointer_image; the image the latest
                     \* event attached and the one attached before it since
                     \* the pointer entered (history)
    \* the editor's text entry
    editor,          \* entry: text, cursor, anchor and preedit of the entry;
                     \* call: the event handled last, what it wrote to
                     \* stderr, and whether the process is still running
    \* several input devices
    devs             \* input: keyboard_focus and modifiers of each input
                     \* device; keyboard_device of each window; call: the
                     \* key event handled last and whether it got past the
                     \* keyboard_device test (history)

loop_vars  == <<window, deferred_list, phase, ready, running>>
sched_hist == <<arrival, owed, serving, iter_runs>>
surf_hist  == <<burst, fresh, acked, last_drawn>>
hist_vars  == <<sched_hist, surf_hist>>
input_vars == <<shell, pwin, input, press>>
geom_vars == <<gwin, g_call, pre_toggle>>
item_vars == <<iwin, ipointer, i_call>>
key_vars == <<kinput, held, k_call>>
aux_vars == <<geom_vars, item_vars, key_vars, proc, life, cursor, editor, devs>>
vars == <<loop_vars, hist_vars, input_vars, aux_vars>>

\* ------------------------------------------------------- small helpers

Min(a, b) == IF a < b THEN a ELSE b

\* The context client code is running in, or "none" when only the toolkit runs.
Ctx ==
    IF running # NULL THEN "redraw"
    ELSE IF phase = "setup" THEN "setup"
    ELSE IF phase = "dispatch" /\ ready > 0 THEN "event"
    ELSE "none"

\* The arrival entry of no task.
NoEntry == [task |-> NULL, ctx |-> "none", by |-> NULL]

\* A surface name not in use by the window.
NewSurface(win) ==
    CHOOSE s \in SurfaceIds :
        /\ s \notin {win.cairo_surface, win.pending_surface}
        /\ \A t \in SurfaceIds :
              t \notin {win.cairo_surface, win.pending_surface} => s <= t

\* ------------------------------------------------ surface lifecycle

\* window_attach_surface: on the shm and EGL-image paths hand the drawn
\* surface to the compositor unless one is still pending; on the EGL-window
\* path swap buffers (no attach request and no callback of the toolkit's).
window_attach_surface_NoPendingCheck(win) ==
    IF win.buffer_type = "EGL_WINDOW" THEN win
    ELSE [win EXCEPT !.pending_surface = win.cairo_surface,
                     !.cairo_surface = NULL,
                     !.attached_buffer = win.cairo_surface,
                     !.sync_callbacks = win.sync_callbacks + 1]

\* window_attach_surface leaving the attached surface the drawable one.
window_attach_surface_KeepDrawable(win) ==
    IF win.buffer_type = "EGL_WINDOW" THEN win
    ELSE IF win.pending_surface # NULL THEN win
    ELSE [win EXCEPT !.pending_surface = win.cairo_surface,
                     !.attached_buffer = win.cairo_surface,
                     !.sync_callbacks = win.sync_callbacks + 1]

window_attach_surface(win) ==
    IF win.buffer_type = "EGL_WINDOW" THEN win
    ELSE IF win.pending_surface # NULL THEN win
    ELSE [win EXCEPT !.pending_surface = win.cairo_surface,
                     !.cairo_surface = NULL,
                     !.attached_buffer = win.cairo_surface,
                     !.sync_callbacks = win.sync_callbacks + 1]

\* free_surface: the acknowledgment of the sync callback registered by an
\* attach.  Destroys the pending surface and attaches a surface drawn meanwhile.
free_surface_NoReattach(win) ==
    [win EXCEPT !.sync_callbacks = win.sync_callbacks - 1,
                !.pending_surface = NULL,
                !.attached_buffer = NULL]

free_surface(win) ==
    LET freed == [win EXCEPT !.sync_callbacks = win.sync_callbacks - 1,
                             !.pending_surface = NULL,
                             !.attached_buffer = NULL]
    IN  IF freed.cairo_surface # NULL THEN window_attach_surface(freed)
        ELSE freed

\* window_flush
window_flush(win) ==
    IF win.cairo_surface # NULL THEN window_attach_surface(win) ELSE win

\* window_set_surface: the new surface replaces the drawn one, which is destroyed.
window_set_surface_KeepOld(win, surface) ==
    IF win.cairo_surface # NULL THEN win
    ELSE [win EXCEPT !.cairo_surface = surface]

window_set_surface(win, surface) ==
    [win EXCEPT !.cairo_surface = surface]

\* window_create_surface (what window_draw calls in each of its branches):
\* ok is whether the allocation of the buffer succeeded.
window_create_surface(win, ok) ==
    IF win.buffer_type = "EGL_WINDOW" /\ win.cairo_surface # NULL
    THEN win     \* window_resize_cairo_window_surface: the surface is kept
    ELSE window_set_surface(win, IF ok THEN NewSurface(win) ELSE NULL)

\* ------------------------------------------------ deferred tasks

\* display_defer: wl_list_insert(&display->deferred_list, ...) links the task
\* right after the list head, i.e. in front.
display_defer(list, task) == <<task>> \o list

\* ------------------------------------------------ pointer hit-testing

\* enum window_location
WINDOW_INTERIOR == 0
WINDOW_RESIZING_TOP == 1
WINDOW_RESIZING_BOTTOM == 2
WINDOW_RESIZING_LEFT == 4
WINDOW_RESIZING_TOP_LEFT == 5
WINDOW_RESIZING_BOTTOM_LEFT == 6
WINDOW_RESIZING_RIGHT == 8
WINDOW_RESIZING_TOP_RIGHT == 9
WINDOW_RESIZING_BOTTOM_RIGHT == 10
WINDOW_EXTERIOR == 16
WINDOW_TITLEBAR == 17
WINDOW_CLIENT_AREA == 18

\* window->margin as window_create_internal sets it; get_pointer_location's
\* grip_size; the height of the title bar below the margin.
DefaultMargin == 16
grip_size == 8
TitlebarHeight == 50

\* The C operators | and & on the five bits a location has.
Bit(n, i) == (n \div (2 ^ i)) % 2

BitOr(a, b) ==
    LET Or(i) == IF Bit(a, i) = 1 \/ Bit(b, i) = 1 THEN 2 ^ i ELSE 0
    IN  Or(0) + Or(1) + Or(2) + Or(3) + Or(4)

BitAnd(a, b) ==
    LET And(i) == IF Bit(a, i) = 1 /\ Bit(b, i) = 1 THEN 2 ^ i ELSE 0
    IN  And(0) + And(1) + And(2) + And(3) + And(4)

\* The left grip measured from the surface edge instead of the margin.
hlocation_FromSurfaceEdge(win, x) ==
    IF x < 0 THEN WINDOW_EXTERIOR
    ELSE IF x < grip_size THEN WINDOW_RESIZING_LEFT
    ELSE IF x < win.width - win.margin - grip_size THEN WINDOW_INTERIOR
    ELSE IF x < win.width - win.margin THEN WINDOW_RESIZING_RIGHT
    ELSE WINDOW_EXTERIOR

\* get_pointer_location
hlocation(win, x) ==
    IF x < win.margin THEN WINDOW_EXTERIOR
    ELSE IF win.margin <= x /\ x < win.margin + grip_size THEN WINDOW_RESIZING_LEFT
    ELSE IF x < win.width - win.margin - grip_size THEN WINDOW_INTERIOR
    ELSE IF x < win.width - win.margin THEN WINDOW_RESIZING_RIGHT
    ELSE WINDOW_EXTERIOR

vlocation(win, y) ==
    IF y < win.margin THEN WINDOW_EXTERIOR
    ELSE IF win.margin <= y /\ y < win.margin + grip_size THEN WINDOW_RESIZING_TOP
    ELSE IF y < win.height - win.margin - grip_size THEN WINDOW_INTERIOR
    ELSE IF y < win.height - win.margin THEN WINDOW_RESIZING_BOTTOM
    ELSE WINDOW_EXTERIOR

\* The exterior bit not collapsing the location to WINDOW_EXTERIOR.
get_pointer_location_NoCollapse(win, x, y) ==
    IF win.decoration = 0 THEN WINDOW_CLIENT_AREA
    ELSE LET location == BitOr(vlocation(win, y), hlocation(win, x))
         IN  IF location = WINDOW_INTERIOR /\ y < win.margin + TitlebarHeight
                THEN WINDOW_TITLEBAR
             ELSE IF location = WINDOW_INTERIOR THEN WINDOW_CLIENT_AREA
             ELSE location

get_pointer_location(win, x, y) ==
    IF win.decoration = 0 THEN WINDOW_CLIENT_AREA
    ELSE LET or == BitOr(vlocation(win, y), hlocation(win, x))
             location == IF BitAnd(or, WINDOW_EXTERIOR) # 0
                         THEN WINDOW_EXTERIOR ELSE or
         IN  IF location = WINDOW_INTERIOR /\ y < win.margin + TitlebarHeight
                THEN WINDOW_TITLEBAR
             ELSE IF location = WINDOW_INTERIOR THEN WINDOW_CLIENT_AREA
             ELSE location

ResizeLocations ==
    {WINDOW_RESIZING_TOP, WINDOW_RESIZING_BOTTOM, WINDOW_RESIZING_LEFT,
     WINDOW_RESIZING_RIGHT, WINDOW_RESIZING_TOP_LEFT, WINDOW_RESIZING_TOP_RIGHT,
     WINDOW_RESIZING_BOTTOM_LEFT, WINDOW_RESIZING_BOTTOM_RIGHT}

Buttons == {"BTN_LEFT", "BTN_RIGHT"}

\* No button event handled last.
NoPress == [button |-> "none", state |-> 0, location |-> -1,
            request |-> <<"none">>, handler_calls |-> 0]

\* What a call of the window's button handler adds, if one is set.
CallButtonHandler(win) == IF win.button_handler THEN 1 ELSE 0

\* window_handle_button, up to the item grab: a left press on a display with
\* a shell is a move in the title bar, a resize on a grip, the client's in the
\* client area and nothing elsewhere; any other button event is the client's.
window_handle_button_ForwardAll(sh, win, inp, button, state) ==
    LET location == get_pointer_location(win, inp.sx, inp.sy)
        base == [button |-> button, state |-> state, location |-> location,
                 request |-> <<"none">>, handler_calls |-> 0]
    IN  IF sh /\ button = "BTN_LEFT" /\ state = 1
        THEN IF location = WINDOW_TITLEBAR
                THEN [base EXCEPT !.request = <<"move">>,
                                  !.handler_calls = CallButtonHandler(win)]
             ELSE IF location \in ResizeLocations
                THEN [base EXCEPT !.request = <<"resize", location>>,
                                  !.handler_calls = CallButtonHandler(win)]
             ELSE [base EXCEPT !.handler_calls = CallButtonHandler(win)]
        ELSE [base EXCEPT !.handler_calls = CallButtonHandler(win)]

window_handle_button(sh, win, inp, button, state) ==
    LET location == get_pointer_location(win, inp.sx, inp.sy)
        base == [button |-> button, state |-> state, location |-> location,
                 request |-> <<"none">>, handler_calls |-> 0]
    IN  IF sh /\ button = "BTN_LEFT" /\ state = 1
        THEN IF location = WINDOW_TITLEBAR
                THEN [base EXCEPT !.request = <<"move">>]
             ELSE IF location \in ResizeLocations
                THEN [base EXCEPT !.request = <<"resize", location>>]
             ELSE IF location = WINDOW_CLIENT_AREA
                THEN [base EXCEPT !.handler_calls = CallButtonHandler(win)]
             ELSE base
        ELSE [base EXCEPT !.handler_calls = CallButtonHandler(win)]

\* The window sizes and the pointer positions the model draws from: positions
\* around every boundary get_pointer_location tests, the centre, and points up
\* to MaxOutside outside the surface.
Widths == {20, 500}
Heights == {40, 400}

SampleCoords(dim) ==
    (-MaxOutside .. 0) \cup (dim .. dim + MaxOutside)
    \cup {grip_size \div 2, 20, dim \div 2}
    \cup {DefaultMargin + d : d \in {-1, 0, grip_size \div 2, grip_size - 1, grip_size,
                                     TitlebarHeight - 1, TitlebarHeight}}
    \cup {dim - DefaultMargin + d : d \in {-grip_size - 1, -grip_size, -1, 0}}

\* ------------------------------------------------ window geometry

\* display->screen_allocation, as the output's geometry event set it.
Screen == [x |-> 0, y |-> 0, width |-> 1024, height |-> 768]

\* What a resize handler set by the client does with the size it is given:
\* "NULL" is no handler, "apply" calls window_set_child_size with that size,
\* "ignore" leaves the window alone.
ResizeHandlers == {"NULL", "apply", "ignore"}

\* The values of the int that window_set_fullscreen takes.
FullscreenFlags == {0, 1, 2}

\* The sizes and edges a configure event of the shell carries, and the child
\* sizes the client passes to window_set_child_size itself.
ConfigureWidths == {0, 490}
ConfigureHeights == {390}
ConfigureEdges == {WINDOW_RESIZING_TOP_LEFT, WINDOW_RESIZING_BOTTOM_RIGHT}
ChildSizes == {<<448, 308>>}

\* No operation run yet.
NoCall == [op |-> "none", resize_calls |-> 0, resize_args |-> <<>>,
           null_call |-> FALSE, attach |-> <<>>, buffer |-> <<>>,
           damage |-> <<>>]

NoRect == [x |-> -1, y |-> -1, width |-> -1, height |-> -1]

\* window_set_child_size without the margin in the allocation's size.
window_set_child_size_NoMargin(win, width, height) ==
    IF win.decoration # 0
    THEN [win EXCEPT !.allocation =
             [x |-> 20 + win.margin, y |-> 60 + win.margin,
              width |-> width + 20, height |-> height + 60]]
    ELSE [win EXCEPT !.allocation =
             [x |-> 0, y |-> 0, width |-> width, height |-> height]]

window_set_child_size(win, width, height) ==
    IF win.decoration # 0
    THEN [win EXCEPT !.allocation =
             [x |-> 20 + win.margin, y |-> 60 + win.margin,
              width |-> width + 20 + win.margin * 2,
              height |-> height + 60 + win.margin * 2]]
    ELSE [win EXCEPT !.allocation =
             [x |-> 0, y |-> 0, width |-> width, height |-> height]]

\* (*window->resize_handler)(window, width, height, ...) for a handler that
\* is set.
resize_handler(win, width, height) ==
    IF win.resize_handler = "apply" THEN window_set_child_size(win, width, height)
    ELSE win

\* window_schedule_redraw on this window: its task is linked unless
\* redraw_scheduled is set.
window_schedule_redraw(win) ==
    IF win.redraw_scheduled = 0
    THEN [win EXCEPT !.redraw_scheduled = 1, !.task_linked = TRUE]
    ELSE win

\* handle_configure
handle_configure(win, edges, width, height) ==
    IF width <= 0 \/ height <= 0 THEN win
    ELSE LET w1 == [win EXCEPT !.resize_edges = edges]
         IN  IF w1.resize_handler # "NULL"
             THEN resize_handler(w1, width - 20 - w1.margin * 2,
                                     height - 60 - w1.margin * 2)
             ELSE LET w2 == [w1 EXCEPT !.allocation.width = width,
                                       !.allocation.height = height]
                  IN  IF w2.redraw_handler THEN window_schedule_redraw(w2) ELSE w2

\* The arguments handle_configure calls the resize handler with, if it does.
configure_resize_args(win, width, height) ==
    IF width <= 0 \/ height <= 0 \/ win.resize_handler = "NULL" THEN <<>>
    ELSE <<width - 20 - win.margin * 2, height - 60 - win.margin * 2>>

\* (window->type == TYPE_FULLSCREEN), a C int.
IsFullscreen(win) == IF win.type = "TYPE_FULLSCREEN" THEN 1 ELSE 0

\* window_set_fullscreen up to its call of the resize handler.
fullscreen_switch(win, fullscreen) ==
    IF fullscreen # 0
    THEN [win EXCEPT !.type = "TYPE_FULLSCREEN",
                     !.saved_allocation = win.allocation,
                     !.decoration = 0]
    ELSE [win EXCEPT !.type = "TYPE_TOPLEVEL",
                     !.decoration = 1]

\* The width and height window_set_fullscreen calls the resize handler with.
fullscreen_resize_args(win, fullscreen) ==
    IF fullscreen # 0 THEN <<Screen.width, Screen.height>>
    ELSE <<win.saved_allocation.width - 20 - win.margin * 2,
           win.saved_allocation.height - 60 - win.margin * 2>>

\* window_set_fullscreen for a window whose resize handler is set; the call
\* through a NULL resize_handler is the action's to model.
window_set_fullscreen(win, fullscreen) ==
    IF IsFullscreen(win) = fullscreen THEN win
    ELSE LET args == fullscreen_resize_args(win, fullscreen)
         IN  resize_handler(fullscreen_switch(win, fullscreen), args[1], args[2])

\* window_get_resize_dx_dy: the x and y of the next attach.
window_get_resize_dx_dy(win) ==
    <<IF BitAnd(win.resize_edges, WINDOW_RESIZING_LEFT) # 0
         THEN win.server_allocation.width - win.allocation.width ELSE 0,
      IF BitAnd(win.resize_edges, WINDOW_RESIZING_TOP) # 0
         THEN win.server_allocation.height - win.allocation.height ELSE 0>>

\* window_attach_surface on the shm path, as far as the geometry goes:
\* resize_edges is cleared before pending_surface is looked at.
attach_geometry(win) ==
    LET w1 == [win EXCEPT !.resize_edges = 0]
    IN  IF win.pending THEN w1
        ELSE [w1 EXCEPT !.pending = TRUE, !.drawn = FALSE,
                        !.server_allocation = win.allocation]

\* The x, y of the wl_surface_attach it sends, <<>> if it sends none.
attach_request(win) ==
    IF win.pending THEN <<>> ELSE window_get_resize_dx_dy(win)

\* uncommitted_edges observes the edges of the last configure event that
\* handle_configure accepted and that no attach has gone out for yet.
NoteConfigure(win, edges, width, height) ==
    IF width <= 0 \/ height <= 0 THEN win
    ELSE [win EXCEPT !.uncommitted_edges = edges]

NoteAttach(win, request) ==
    IF request = <<>> THEN win
    ELSE [win EXCEPT !.uncommitted_edges = 0, !.drawn_size = <<>>]

\* drawn_size observes the width and height of the drawable surface, which
\* window_create_surface created with the allocation of that time.
NoteDraw(win) ==
    [win EXCEPT !.drawn = TRUE,
                !.drawn_size = <<win.allocation.width, win.allocation.height>>]

\* The width and height of the wl_surface_damage that follows the attach.
attach_damage(win) == <<win.allocation.width, win.allocation.height>>

\* ------------------------------------------------ items and item focus

\* The allocations item_set_allocation gives the items, in the order the
\* client adds them: two that overlap and one zero-sized.
ItemRects == <<[x |-> 0, y |-> 0, width |-> 20, height |-> 20],
               [x |-> 10, y |-> 0, width |-> 20, height |-> 20],
               [x |-> 50, y |-> 0, width |-> 0, height |-> 0]>>

\* window_add_item linking the item right after the list head.
window_add_item_AtHead(item_list, item) == <<item>> \o item_list

\* window_add_item: wl_list_insert(window->item_list.prev, ...) links the
\* item at the tail.
window_add_item(item_list, item) == Append(item_list, item)

\* The window's item_list after the client added the items.
Items ==
    window_add_item(
        window_add_item(
            window_add_item(<<>>, ItemRects[1]), ItemRects[2]), ItemRects[3])

\* Pointer abscissas: on the first item only, on the left edge of the second
\* (on both), on the right edge of the first (on the second only), on the
\* right edge of the second (on none).
ItemXs == {5, 10, 20, 30}

\* Pointer ordinates: the top edge of the items and their bottom edge.
ItemYs == {0, 20}

\* The value 0 of item_grab_button.
NoButton == "none"

\* window_find_item: the first item of the list that holds the point, or NULL.
window_find_item(win, x, y) ==
    LET hit == {i \in DOMAIN Items :
                   /\ Items[i].x <= x /\ x < Items[i].x + Items[i].width
                   /\ Items[i].y <= y /\ y < Items[i].y + Items[i].height}
    IN  IF hit = {} THEN NULL
        ELSE CHOOSE i \in hit : \A j \in hit : i <= j

\* window_set_focus_item calling the handler whether or not the item changes.
window_set_focus_item_NoSameCheck(win, focus) ==
    [win |-> [win EXCEPT !.focus_item = focus],
     calls |-> IF win.item_focus_handler THEN 1 ELSE 0,
     arg |-> focus]

\* window_set_focus_item: the window after it, the calls of the item-focus
\* handler it made and the item they got.
window_set_focus_item(win, focus) ==
    IF focus = win.focus_item
    THEN [win |-> win, calls |-> 0, arg |-> NULL]
    ELSE [win |-> [win EXCEPT !.focus_item = focus],
          calls |-> IF win.item_focus_handler THEN 1 ELSE 0,
          arg |-> focus]

\* No event handled yet.
NoItemCall == [op |-> "none", before |-> NULL, calls |-> 0, arg |-> NULL]

\* ------------------------------------------------ keyboard modifiers

\* The keys of the key events, by the number the compositor sends:
\* KEY_LEFTCTRL, KEY_LEFTSHIFT, KEY_M and KEY_RIGHTSHIFT.
Keys == {29, 42, 50, 54}

\* The keymap init_xkb compiled: min_key_code, and map->modmap as a function
\* of the key code (the key number plus min_key_code): both shift keys carry
\* the shift bit, the control key the control bit, every other code none.
xkb == [min_key_code |-> 8,
        modmap |-> [code \in 0..63 |->
                       IF code \in {50, 62} THEN 1
                       ELSE IF code = 37 THEN 4
                       ELSE 0]]

\* a & ~b on modifier masks.
BitAndNot(a, b) ==
    LET AndNot(i) == IF Bit(a, i) = 1 /\ Bit(b, i) = 0 THEN 2 ^ i ELSE 0
    IN  AndNot(0) + AndNot(1) + AndNot(2) + AndNot(3) + AndNot(4)

\* The OR of f[k] over the keys of a set.
RECURSIVE OrOver(_, _)
OrOver(f, keys) ==
    IF keys = {} THEN 0
    ELSE LET k == CHOOSE k \in keys : TRUE
         IN  BitOr(f[k], OrOver(f, keys \ {k}))

\* window_handle_key: the input device after a key event.
window_handle_key(inp, key, state) ==
    LET code == key + xkb.min_key_code
    IN  IF ~inp.keyboard_focus THEN inp
        ELSE IF state # 0
        THEN [inp EXCEPT !.modifiers = BitOr(@, xkb.modmap[code])]
        ELSE [inp EXCEPT !.modifiers = BitAndNot(@, xkb.modmap[code])]

\* window_handle_keyboard_focus: the input device after the keyboard focus
\* moved to the window (focus TRUE) or away, with the keys that are down.
window_handle_keyboard_focus(inp, focus, keys) ==
    [keyboard_focus |-> focus,
     modifiers |-> OrOver([k \in Keys |-> xkb.modmap[k]], keys)]

\* input_get_modifiers.
input_get_modifiers(inp) == inp.modifiers

\* No key event handled yet.
NoKeyCall == [op |-> "none", key |-> 0, before |-> 0, focus_keys |-> {}]

\* ------------------------------------------------ process start

\* The demo programs whose main is modelled: one that uses the display
\* unchecked and one that checks it.
Clients == {"view", "eventdemo"}

\* The most files on view's command line.
MaxFiles == 2

\* What display_create can meet.
CreateOutcomes ==
    {"ok", "option parsing failed", "malloc failed", "connect failed",
     "init_egl failed"}

\* display_create: what it returns, whether it reports on stderr, and whether
\* it ends the process itself.
display_create(outcome) ==
    [d |-> IF outcome = "ok" THEN "display" ELSE "NULL",
     reported |-> outcome \in {"option parsing failed", "connect failed"},
     exits |-> outcome = "option parsing failed"]

\* ------------------------------------------------ windows of a display

\* The most windows created in a run.
MaxWindows == 3

\* Redraws and attaches are followed on the first MaxTasked windows.
MaxTasked == 1

\* The sets of pressed keys a keyboard-focus event carries.
FocusKeySets == {{}, {50}, {29, 42}}

\* The display's one input device, as the non-null value of keyboard_device.
InputDevice == 1

\* wl_list_insert(pos, elm): elm is linked right after the element at
\* position pos of the list (0 is the list head itself).
wl_list_insert(list, pos, elm) ==
    SubSeq(list, 1, pos) \o <<elm>> \o SubSeq(list, pos + 1, Len(list))

\* wl_list_remove(elm).
wl_list_remove(list, elm) == SelectSeq(list, LAMBDA e : e # elm)

\* window_create_internal linking the window right after the list head.
window_create_internal_AtHead(d, parent, handler, ok) ==
    IF ~ok THEN d
    ELSE LET w == d.next
         IN  [d EXCEPT !.next = w + 1,
                       !.win = (w :> [type |-> "TYPE_TOPLEVEL",
                               keyboard_device |-> NULL,
                               keyboard_focus_handler |-> handler,
                               redraw_scheduled |-> 0,
                               pending_surface |-> FALSE]) @@ @,
                       !.surfaces = @ \cup {w},
                       !.window_list = wl_list_insert(@, 0, w)]

\* window_create_internal: the display after it; ok is whether malloc gave
\* the window. The new window is d.next. (handler is whether the client
\* then sets a keyboard-focus handler on it.)
window_create_internal(d, parent, handler, ok) ==
    IF ~ok THEN d
    ELSE LET w == d.next
         IN  [d EXCEPT !.next = w + 1,
                       !.win = (w :> [type |-> "TYPE_TOPLEVEL",
                               keyboard_device |-> NULL,
                               keyboard_focus_handler |-> handler,
                               redraw_scheduled |-> 0,
                               pending_surface |-> FALSE]) @@ @,
                       !.surfaces = @ \cup {w},
                       !.window_list = wl_list_insert(@, Len(@), w)]

\* window_create.
window_create(d, handler, ok) == window_create_internal(d, NULL, handler, ok)

\* window_create_transient.
window_create_transient(d, parent, handler, ok) ==
    LET c == window_create_internal(d, parent, handler, ok)
    IN  IF ~ok THEN c
        ELSE [c EXCEPT !.win[d.next].type = "TYPE_TRANSIENT"]

\* window_destroy: the protocol surface is destroyed, the window unlinked
\* and its memory freed. Nothing else of the display is written.
window_destroy(d, w) ==
    [d EXCEPT !.surfaces = @ \ {w},
              !.window_list = wl_list_remove(@, w),
              !.win = [v \in DOMAIN @ \ {w} |-> @[v]],
              !.freed = @ \cup {w}]

\* window_handle_keyboard_focus adding the pressed keys to the old mask.
display_keyboard_focus_KeepModifiers(d, surface, keys) ==
    LET old == d.keyboard_focus
        lost == IF old # NULL /\ d.win[old].keyboard_focus_handler
                THEN <<[w |-> old, device |-> NULL, modifiers |-> d.modifiers]>>
                ELSE <<>>
        d1 == IF old # NULL
              THEN [d EXCEPT !.win[old].keyboard_device = NULL] ELSE d
        mask == BitOr(d.modifiers,
                      window_handle_keyboard_focus(
                          [keyboard_focus |-> FALSE, modifiers |-> d.modifiers],
                          surface # NULL, keys).modifiers)
        d2 == [d1 EXCEPT !.keyboard_focus = surface, !.modifiers = mask]
        gained == IF surface # NULL /\ d.win[surface].keyboard_focus_handler
                  THEN <<[w |-> surface, device |-> InputDevice, modifiers |-> mask]>>
                  ELSE <<>>
        d3 == IF surface # NULL
              THEN [d2 EXCEPT !.win[surface].keyboard_device = InputDevice] ELSE d2
    IN  [d3 EXCEPT !.notes = lost \o gained]

\* window_handle_keyboard_focus on the display's input device: surface is
\* the window of the surface that gets the focus, or NULL. Each call of a
\* keyboard-focus handler is noted with the window, the device it is given
\* and the mask the device holds at the call.
display_keyboard_focus(d, surface, keys) ==
    LET old == d.keyboard_focus
        lost == IF old # NULL /\ d.win[old].keyboard_focus_handler
                THEN <<[w |-> old, device |-> NULL, modifiers |-> d.modifiers]>>
                ELSE <<>>
        d1 == IF old # NULL
              THEN [d EXCEPT !.win[old].keyboard_device = NULL] ELSE d
        mask == window_handle_keyboard_focus(
                    [keyboard_focus |-> FALSE, modifiers |-> d.modifiers],
                    surface # NULL, keys).modifiers
        d2 == [d1 EXCEPT !.keyboard_focus = surface, !.modifiers = mask]
        gained == IF surface # NULL /\ d.win[surface].keyboard_focus_handler
                  THEN <<[w |-> surface, device |-> InputDevice, modifiers |-> mask]>>
                  ELSE <<>>
        d3 == IF surface # NULL
              THEN [d2 EXCEPT !.win[surface].keyboard_device = InputDevice] ELSE d2
    IN  [d3 EXCEPT !.notes = lost \o gained]

\* An operation reads or writes the memory of a window that was freed.
UseFreed(d) == [d EXCEPT !.used_freed = TRUE]

\* ------------------------------------------------ the pointer image

\* The windows the pointer can be over: decorated or not, of the sizes of
\* the hit-testing model.
CursorWindows ==
    [decoration : {0, 1}, margin : {DefaultMargin},
     width : Widths, height : Heights]

\* Pointer positions: in the margin, in the title bar, on the top-left grip,
\* on the left grip, and two in the client area.
CursorPoints ==
    {<<0, 0>>, <<250, 30>>, <<20, 20>>, <<20, 200>>, <<250, 200>>, <<260, 200>>}

\* The images a motion or enter handler asks for.
PointerHints == {"POINTER_LEFT_PTR", "POINTER_IBEAM"}

\* The image set_pointer_image picks for a location: that of the grip, the
\* default image in the title bar and outside, the handler's elsewhere.
pointer_for_location(location, pointer) ==
    IF location = WINDOW_RESIZING_TOP THEN "POINTER_TOP"
    ELSE IF location = WINDOW_RESIZING_BOTTOM THEN "POINTER_BOTTOM"
    ELSE IF location = WINDOW_RESIZING_LEFT THEN "POINTER_LEFT"
    ELSE IF location = WINDOW_RESIZING_RIGHT THEN "POINTER_RIGHT"
    ELSE IF location = WINDOW_RESIZING_TOP_LEFT THEN "POINTER_TOP_LEFT"
    ELSE IF location = WINDOW_RESIZING_TOP_RIGHT THEN "POINTER_TOP_RIGHT"
    ELSE IF location = WINDOW_RESIZING_BOTTOM_LEFT THEN "POINTER_BOTTOM_LEFT"
    ELSE IF location = WINDOW_RESIZING_BOTTOM_RIGHT THEN "POINTER_BOTTOM_RIGHT"
    ELSE IF location \in {WINDOW_EXTERIOR, WINDOW_TITLEBAR} THEN "POINTER_DEFAULT"
    ELSE pointer

\* set_pointer_image attaching whatever it picked.
set_pointer_image_AlwaysAttach(inp, pointer) ==
    LET image == pointer_for_location(
                     get_pointer_location(inp.win, inp.sx, inp.sy), pointer)
    IN  [inp EXCEPT !.current_pointer_image = image, !.attach = image]

\* set_pointer_image: the input device after it; attach is the image of the
\* wl_input_device_attach request it sent, or "none".
set_pointer_image(inp, pointer) ==
    LET image == pointer_for_location(
                     get_pointer_location(inp.win, inp.sx, inp.sy), pointer)
    IN  IF image = inp.current_pointer_image
        THEN [inp EXCEPT !.attach = "none"]
        ELSE [inp EXCEPT !.current_pointer_image = image, !.attach = image]

\* ------------------------------------------------ the editor's text entry
MaxText == 3

\* A text is its bytes; "a" and the two bytes of a two-byte character.
CommitTexts == {<<>>, <<97>>, <<195, 169>>}
CommitIndexes == {0, 1, 3}
PreeditTexts == {<<97>>}
PreeditCommits == {<<>>, <<97>>}
DeleteIndexes == {-2, -1, 0, 1}
\* uint32_t length; -1 is the bit pattern of 4294967295.
DeleteLengths == {0, 1, 2, -1}
EntryTexts == {<<>>, <<97>>}

\* A uint32_t is held as the int32_t of the same bits: sums and differences
\* are then the machine's, and a > b on the unsigned values is UGt(a, b).
UGt(a, b) == IF (a < 0) = (b < 0) THEN a > b ELSE a < 0

\* text[p] of a C string, the terminating 0 included.
ByteAt(text, p) == IF p < Len(text) THEN text[p + 1] ELSE 0

\* (c & 0xc0) == 0x80
IsContinuation(c) == c \in 128..191

\* utf8_start_char; -1 for its NULL.
RECURSIVE utf8_start_char(_, _)
utf8_start_char(text, p) ==
    IF p < 0 THEN -1
    ELSE IF ~IsContinuation(ByteAt(text, p)) THEN p
    ELSE utf8_start_char(text, p - 1)

RECURSIVE utf8_end_char(_, _)
utf8_end_char(text, p) ==
    IF IsContinuation(ByteAt(text, p)) THEN utf8_end_char(text, p + 1) ELSE p

NoPreedit == [text |-> <<>>, cursor |-> 0, commit |-> <<>>]

text_entry_create(text) ==
    [text |-> text, cursor |-> Len(text), anchor |-> Len(text),
     preedit |-> NoPreedit]

\* The assertion of text_entry_update_layout.
LayoutAssertion(entry) ==
    ~UGt(entry.cursor, Len(entry.text) + Len(entry.preedit.text))

text_entry_insert_at_cursor(entry, text) ==
    [entry EXCEPT
        !.text = SubSeq(entry.text, 1, entry.cursor) \o text
                    \o SubSeq(entry.text, entry.cursor + 1, Len(entry.text)),
        !.cursor = @ + Len(text),
        !.anchor = @ + Len(text)]

text_entry_reset_preedit(entry) == [entry EXCEPT !.preedit = NoPreedit]

text_entry_commit_and_reset(entry) ==
    text_entry_insert_at_cursor(text_entry_reset_preedit(entry),
                                entry.preedit.commit)

text_entry_set_preedit(entry, preedit_text, preedit_cursor) ==
    [entry EXCEPT !.preedit = [text |-> preedit_text, cursor |-> preedit_cursor,
                               commit |-> <<>>]]

text_entry_delete_text(entry, index, length) ==
    LET moved == IF UGt(entry.cursor, index) THEN entry.cursor - length
                 ELSE entry.cursor
    IN  [entry EXCEPT
            !.cursor = moved,
            !.anchor = moved,
            !.text = SubSeq(entry.text, 1, index)
                        \o SubSeq(entry.text, index + length + 1, Len(entry.text))]

text_entry_delete_selected_text(entry) ==
    LET start_index == IF UGt(entry.cursor, entry.anchor) THEN entry.anchor
                       ELSE entry.cursor
        end_index == IF UGt(entry.cursor, entry.anchor) THEN entry.cursor
                     ELSE entry.anchor
    IN  IF entry.anchor = entry.cursor THEN entry
        ELSE text_entry_delete_text(entry, start_index, end_index - start_index)

\* text_model_commit_string: the index is compared with the length of the
\* committed text and the text is committed whatever the outcome.
text_model_commit_string(entry, text, index) ==
    text_entry_insert_at_cursor(
        text_entry_delete_selected_text(text_entry_reset_preedit(entry)), text)

commit_string_stderr(text, index) ==
    IF index > Len(text) THEN <<"Invalid cursor index">> ELSE <<>>

text_model_preedit_string(entry, text, commit) ==
    [text_entry_set_preedit(text_entry_delete_selected_text(entry), text, 0)
        EXCEPT !.preedit.commit = commit]

\* What text_model_delete_surrounding_text does: a message and nothing else,
\* nothing at all, a deletion, or a read far beyond the text.
delete_surrounding_outcome(entry, index, length) ==
    LET cursor_index == index + entry.cursor
    IN  IF UGt(cursor_index, Len(entry.text)) THEN "invalid_index"
        ELSE IF UGt(cursor_index + length, Len(entry.text)) THEN "invalid_length"
        ELSE IF length = 0 THEN "nothing"
        ELSE IF length < 0 \/ utf8_start_char(entry.text, cursor_index) = -1
        THEN "undefined"
        ELSE "delete"

text_model_delete_surrounding_text(entry, index, length) ==
    LET cursor_index == index + entry.cursor
        start == utf8_start_char(entry.text, cursor_index)
        end == utf8_end_char(entry.text, cursor_index + length)
    IN  IF delete_surrounding_outcome(entry, index, length) = "delete"
        THEN text_entry_delete_text(entry, start, end - start)
        ELSE entry

delete_surrounding_stderr(entry, index, length) ==
    LET outcome == delete_surrounding_outcome(entry, index, length)
    IN  IF outcome = "invalid_index" THEN <<"Invalid cursor index">>
        ELSE IF outcome = "invalid_length" THEN <<"Invalid length">>
        ELSE <<>>

\* text_layout_xy_to_index returns the byte offset of a glyph boundary.
GlyphBoundaries(text) ==
    {p \in 0..Len(text) : ~IsContinuation(ByteAt(text, p))}

text_entry_set_cursor_position(entry, index) ==
    [text_entry_commit_and_reset(entry) EXCEPT !.cursor = index]

text_entry_set_anchor_position(entry, index) == [entry EXCEPT !.anchor = index]

\* ------------------------------------------------ several input devices
MaxDevices == 2

\* The input devices display_add_input added, and the windows they focus.
Devices == 1..MaxDevices
DeviceWindows == {1, 2}
DeviceKeySets == {{}, {42}}
DeviceKeys == {42, 30}

\* window_handle_key of input device d: the event is dropped unless the
\* focus window's keyboard_device is this device.
device_handle_key(s, d, key, state) ==
    LET w == s.input[d].keyboard_focus
        code == key + xkb.min_key_code
    IN  IF s.keyboard_device[w] # d THEN s
        ELSE IF state # 0
        THEN [s EXCEPT !.input[d].modifiers = BitOr(@, xkb.modmap[code])]
        ELSE [s EXCEPT !.input[d].modifiers = BitAndNot(@, xkb.modmap[code])]

\* Whether window_handle_key gets to the key handler.
device_key_delivered(s, d) ==
    s.keyboard_device[s.input[d].keyboard_focus] = d

\* window_handle_keyboard_focus of input device d: keyboard_device of the
\* window left becomes NULL, that of the window entered becomes d.
device_handle_keyboard_focus(s, d, surface, keys) ==
    LET old == s.input[d].keyboard_focus
        s1 == IF old # NULL THEN [s EXCEPT !.keyboard_device[old] = NULL] ELSE s
        s2 == [s1 EXCEPT !.input[d] =
                  [keyboard_focus |-> surface,
                   modifiers |-> OrOver([k \in DeviceKeys |-> xkb.modmap[k]], keys)]]
    IN  IF surface # NULL THEN [s2 EXCEPT !.keyboard_device[surface] = d] ELSE s2

\* ---------------------------------------------------------------- Init

\* window_create_internal (memset 0, buffer type chosen from the display's
\* EGL state or set right after with window_set_buffer_type).
LoopInit ==
    /\ window \in [Windows -> {[buffer_type |-> t, cairo_surface |-> NULL,
                                pending_surface |-> NULL, redraw_scheduled |-> 0,
                                sync_callbacks |-> 0, attached_buffer |-> NULL]
                               : t \in BufferTypes}]
    /\ deferred_list = <<>>
    /\ phase = "setup"
    /\ ready = 0
    /\ running = NULL
    /\ arrival = <<>>
    /\ owed = [w \in Windows |-> FALSE]
    /\ serving = NoEntry
    /\ iter_runs = [w \in Windows |-> 0]
    /\ burst = [w \in Windows |-> 0]
    /\ fresh = [w \in Windows |-> FALSE]
    /\ acked = [w \in Windows |-> FALSE]
    /\ last_drawn = [w \in Windows |-> NULL]

\* The loop part at rest, for the specification of pointer input.
LoopIdle ==
    /\ window = [w \in Windows |->
                    [buffer_type |-> "SHM", cairo_surface |-> NULL,
                     pending_surface |-> NULL, redraw_scheduled |-> 0,
                     sync_callbacks |-> 0, attached_buffer |-> NULL]]
    /\ deferred_list = <<>>
    /\ phase = "setup"
    /\ ready = 0
    /\ running = NULL
    /\ arrival = <<>>
    /\ owed = [w \in Windows |-> FALSE]
    /\ serving = NoEntry
    /\ iter_runs = [w \in Windows |-> 0]
    /\ burst = [w \in Windows |-> 0]
    /\ fresh = [w \in Windows |-> FALSE]
    /\ acked = [w \in Windows |-> FALSE]
    /\ last_drawn = [w \in Windows |-> NULL]

\* window_create_internal for a window of the given size: decorated, margin
\* 16.  The display may or may not have found a wl_shell global; the client
\* may or may not have set a button handler.
InputInit ==
    /\ shell \in BOOLEAN
    /\ \E width \in Widths, height \in Heights, handler \in BOOLEAN :
          pwin = [decoration |-> 1, margin |-> DefaultMargin,
                  width |-> width, height |-> height,
                  button_handler |-> handler]
    /\ input = [sx |-> 0, sy |-> 0]
    /\ press = NoPress

\* The input part at rest, for the specifications of the event loop.
InputIdle ==
    /\ shell = TRUE
    /\ pwin = [decoration |-> 1, margin |-> DefaultMargin,
               width |-> 500, height |-> 400, button_handler |-> TRUE]
    /\ input = [sx |-> 0, sy |-> 0]
    /\ press = NoPress

\* window_create(display, 500, 400): window_create_internal leaves type 0
\* (TYPE_TOPLEVEL), the allocation at the origin and saved_allocation equal to
\* it; the client then sets, or not, its resize and redraw handlers.
GeomInit ==
    /\ \E rh \in ResizeHandlers, dh \in BOOLEAN :
          gwin = [type |-> "TYPE_TOPLEVEL", decoration |-> 1,
                  margin |-> DefaultMargin,
                  allocation |-> [x |-> 0, y |-> 0, width |-> 500, height |-> 400],
                  saved_allocation |-> [x |-> 0, y |-> 0, width |-> 500, height |-> 400],
                  server_allocation |-> [x |-> 0, y |-> 0, width |-> 0, height |-> 0],
                  resize_edges |-> 0,
                  resize_handler |-> rh, redraw_handler |-> dh,
                  redraw_scheduled |-> 0, task_linked |-> FALSE,
                  drawn |-> FALSE, pending |-> FALSE,
                  uncommitted_edges |-> 0, drawn_size |-> <<>>]
    /\ g_call = NoCall
    /\ pre_toggle = NoRect

\* The geometry part at rest, for the other specifications.
GeomIdle ==
    /\ gwin = [type |-> "TYPE_TOPLEVEL", decoration |-> 1,
               margin |-> DefaultMargin,
               allocation |-> [x |-> 0, y |-> 0, width |-> 500, height |-> 400],
               saved_allocation |-> [x |-> 0, y |-> 0, width |-> 500, height |-> 400],
               server_allocation |-> [x |-> 0, y |-> 0, width |-> 0, height |-> 0],
               resize_edges |-> 0,
               resize_handler |-> "apply", redraw_handler |-> TRUE,
               redraw_scheduled |-> 0, task_linked |-> FALSE,
               drawn |-> FALSE, pending |-> FALSE,
               uncommitted_edges |-> 0, drawn_size |-> <<>>]
    /\ g_call = NoCall
    /\ pre_toggle = NoRect

\* A window with its items, none focused, no button grabbed, the pointer
\* elsewhere; the client has set an item-focus handler or not.
ItemInit ==
    /\ \E handler \in BOOLEAN :
          iwin = [focus_item |-> NULL, item_grab_button |-> NoButton,
                  item_focus_handler |-> handler]
    /\ ipointer = [pointer_focus |-> FALSE, sx |-> 0, sy |-> 0]
    /\ i_call = NoItemCall

\* The item part at rest, for the other specifications.
ItemIdle ==
    /\ iwin = [focus_item |-> NULL, item_grab_button |-> NoButton,
               item_focus_handler |-> TRUE]
    /\ ipointer = [pointer_focus |-> FALSE, sx |-> 0, sy |-> 0]
    /\ i_call = NoItemCall

\* The keyboard focus elsewhere, no key down.
KeyIdle ==
    /\ kinput = [keyboard_focus |-> FALSE, modifiers |-> 0]
    /\ held = {}
    /\ k_call = NoKeyCall

\* main about to run: the client, the number of files on its command line,
\* and what display_create and the window's allocation will meet.
ProcInit ==
    \E client \in Clients, files \in 0..MaxFiles,
       outcome \in CreateOutcomes, alloc_ok \in BOOLEAN :
        proc = [client |-> client, files |-> files, outcome |-> outcome,
                alloc_ok |-> alloc_ok,
                pc |-> "main", d |-> "unset", reported |-> 0, i |-> 1,
                windows |-> 0, null_use |-> FALSE, status |-> "running"]

\* The process part at rest, for the other specifications.
ProcIdle ==
    proc = [client |-> "eventdemo", files |-> 0, outcome |-> "ok",
            alloc_ok |-> TRUE,
            pc |-> "display_run", d |-> "display", reported |-> 0, i |-> 1,
            windows |-> 1, null_use |-> FALSE, status |-> "running"]

\* display_create has returned: no window, no focus, nothing deferred.
LifeInit ==
    life = [next |-> 1, window_list |-> <<>>, win |-> [v \in {} |-> NULL],
            surfaces |-> {},
            freed |-> {}, pointer_focus |-> NULL, keyboard_focus |-> NULL,
            modifiers |-> 0, deferred_list |-> <<>>, callbacks |-> <<>>,
            used_freed |-> FALSE, notes |-> <<>>]

\* display_add_input has cleared the input device: no pointer focus, and
\* current_pointer_image 0, the first pointer image of the enumeration.
CursorInit ==
    \E win \in CursorWindows :
    cursor = [win |-> win, pointer_focus |-> FALSE, sx |-> 0, sy |-> 0,
              current_pointer_image |-> "POINTER_BOTTOM_LEFT",
              attach |-> "none", shown |-> "none"]

\* The pointer part at rest, for the other specifications.
CursorIdle ==
    cursor = [win |-> [decoration |-> 1, margin |-> DefaultMargin,
                       width |-> 500, height |-> 400],
              pointer_focus |-> FALSE, sx |-> 0, sy |-> 0,
              current_pointer_image |-> "POINTER_UNSET",
              attach |-> "none", shown |-> "none"]

\* The editor has created its entry.
NoEditorCall == [op |-> "none", stderr |-> <<>>, out_of_range |-> FALSE,
                 fate |-> "running"]

EditorInit ==
    \E text \in EntryTexts :
       editor = [entry |-> text_entry_create(text), call |-> NoEditorCall]

\* The editor part at rest, for the other specifications.
EditorIdle ==
    editor = [entry |-> text_entry_create(<<>>), call |-> NoEditorCall]

\* display_add_input has added the devices: no keyboard focus, no modifier;
\* window_create_internal has set no window's keyboard_device.
NoDeviceCall == [op |-> "none", device |-> NULL, delivered |-> FALSE]

DevsInit ==
    devs = [input |-> [d \in Devices |-> [keyboard_focus |-> NULL, modifiers |-> 0]],
            keyboard_device |-> [w \in DeviceWindows |-> NULL],
            call |-> NoDeviceCall]

\* The devices at rest, for the other specifications.
DevsIdle == DevsInit

AuxIdle ==
    GeomIdle /\ ItemIdle /\ KeyIdle /\ ProcIdle /\ LifeInit /\ CursorIdle /\ EditorIdle /\ DevsIdle

Init == LoopInit /\ InputIdle /\ AuxIdle

\* The initial states of the specification of pointer input.
PointerInit == LoopIdle /\ InputInit /\ AuxIdle

\* The initial states of the specification of item focus.
ItemFocusInit ==
    LoopIdle /\ InputIdle /\ GeomIdle /\ ItemInit /\ KeyIdle /\ ProcIdle /\ LifeInit /\ CursorIdle /\ EditorIdle /\ DevsIdle

\* The initial states of the specification of key events.
KeyInit ==
    LoopIdle /\ InputIdle /\ GeomIdle /\ ItemIdle /\ KeyIdle /\ ProcIdle /\ LifeInit /\ CursorIdle /\ EditorIdle /\ DevsIdle

\* The initial states of the specification of process start.
StartInit ==
    LoopIdle /\ InputIdle /\ GeomIdle /\ ItemIdle /\ KeyIdle /\ ProcInit /\ LifeInit /\ CursorIdle /\ EditorIdle /\ DevsIdle

\* The initial states of the specification of window creation and destruction.
WindowsInit ==
    LoopIdle /\ InputIdle /\ GeomIdle /\ ItemIdle /\ KeyIdle /\ ProcIdle /\ LifeInit /\ CursorIdle /\ EditorIdle /\ DevsIdle

\* The initial states of the specification of the pointer image.
CursorStart ==
    LoopIdle /\ InputIdle /\ GeomIdle /\ ItemIdle /\ KeyIdle /\ ProcIdle /\ LifeInit /\ CursorInit /\ EditorIdle /\ DevsIdle

\* The initial states of the specification of the editor's text entry.
EditorStart ==
    LoopIdle /\ InputIdle /\ GeomIdle /\ ItemIdle /\ KeyIdle /\ ProcIdle /\ LifeInit /\ CursorIdle /\ EditorInit /\ DevsIdle

\* The initial states of the specification of several input devices.
DevicesInit ==
    LoopIdle /\ InputIdle /\ GeomIdle /\ ItemIdle /\ KeyIdle /\ ProcIdle /\ LifeInit /\ CursorIdle /\ EditorIdle /\ DevsInit

\* The initial states of the specification of window geometry.
GeometryInit ==
    LoopIdle /\ InputIdle /\ GeomInit /\ ItemIdle /\ KeyIdle /\ ProcIdle /\ LifeInit /\ CursorIdle /\ EditorIdle /\ DevsIdle

\* ------------------------------------------------ client API calls
\* These actions say what a step does to the program's state (loop_vars); the
\* history variables are written by the observers further down.

\* window_schedule_redraw deferring a task on every call, whatever
\* redraw_scheduled says.
WindowScheduleRedraw_NoFlagCheck(w) ==
    /\ Ctx # "none"
    /\ deferred_list' = display_defer(deferred_list, w)
    /\ window' = [window EXCEPT ![w].redraw_scheduled = 1]
    /\ UNCHANGED <<phase, ready, running>>

\* window_schedule_redraw(w), called by client code or by handle_configure.
WindowScheduleRedraw(w) ==
    /\ Ctx # "none"
    /\ IF window[w].redraw_scheduled = 0
       THEN /\ deferred_list' = display_defer(deferred_list, w)
            /\ window' = [window EXCEPT ![w].redraw_scheduled = 1]
       ELSE UNCHANGED <<deferred_list, window>>
    /\ UNCHANGED <<phase, ready, running>>

\* window_draw(w) / window_create_surface(w): the client redraws the window.
WindowCreateSurface(w, ok) ==
    /\ Ctx # "none"
    /\ window' = [window EXCEPT ![w] = window_create_surface(window[w], ok)]
    /\ UNCHANGED <<deferred_list, phase, ready, running>>

\* window_flush(w)
WindowFlush(w) ==
    /\ Ctx # "none"
    /\ window' = [window EXCEPT ![w] = window_flush(window[w])]
    /\ UNCHANGED <<deferred_list, phase, ready, running>>

\* ------------------------------------------------ the event loop

\* display_run is entered.
DisplayRun ==
    /\ phase = "setup"
    /\ phase' = "wait"
    /\ UNCHANGED <<window, deferred_list, ready, running>>

\* epoll_wait returns count ready descriptors (none when interrupted).
EpollWait(count) ==
    /\ phase = "wait"
    /\ ready' = count
    /\ phase' = IF count = 0 THEN "drain" ELSE "dispatch"
    /\ UNCHANGED <<window, deferred_list, running>>

\* The sync callback of an attach is delivered while the display's task runs.
FreeSurface(w) ==
    /\ phase = "dispatch" /\ ready > 0
    /\ window[w].sync_callbacks > 0
    /\ window' = [window EXCEPT ![w] = free_surface(window[w])]
    /\ UNCHANGED <<deferred_list, phase, ready, running>>

\* task->run of a ready descriptor returns; after the last one the loop
\* goes on to the deferred list.
TaskReturn ==
    /\ phase = "dispatch" /\ ready > 0
    /\ ready' = ready - 1
    /\ phase' = IF ready = 1 THEN "drain" ELSE "dispatch"
    /\ UNCHANGED <<window, deferred_list, running>>

\* Where display_run takes and runs deferred tasks.
InDrain_Interleaved == phase \in {"dispatch", "drain"}

InDrain == phase = "drain"

\* The drain loop takes deferred_list.next, unlinks it and runs it: idle_redraw
\* calls the window's redraw handler.
IdleRedrawCall ==
    /\ InDrain /\ running = NULL
    /\ deferred_list # <<>>
    /\ running' = Head(deferred_list)
    /\ deferred_list' = Tail(deferred_list)
    /\ UNCHANGED <<window, phase, ready>>

\* The redraw handler returns into idle_redraw, which clears redraw_scheduled.
IdleRedrawReturn ==
    /\ running # NULL
    /\ window' = [window EXCEPT ![running].redraw_scheduled = 0]
    /\ running' = NULL
    /\ UNCHANGED <<deferred_list, phase, ready>>

\* The deferred list is empty: back to flushing and epoll_wait.
DrainDone ==
    /\ phase = "drain" /\ running = NULL
    /\ deferred_list = <<>>
    /\ phase' = "wait"
    /\ UNCHANGED <<window, deferred_list, ready, running>>

\* ------------------------------------------------ pointer input

\* window_handle_motion: the device's surface-local position is updated
\* (the window has no items and no motion handler).
WindowHandleMotion(sx, sy) ==
    /\ input' = [input EXCEPT !.sx = sx, !.sy = sy]
    /\ press' = NoPress
    /\ UNCHANGED <<shell, pwin>>

\* window_handle_button
WindowHandleButton(button, state) ==
    /\ press' = window_handle_button(shell, pwin, input, button, state)
    /\ UNCHANGED <<shell, pwin, input>>

\* handle_configure for a window with neither a resize handler nor a redraw
\* handler: a non-positive size is ignored, any other becomes the
\* allocation's (resize_edges, which only the next attach reads, is not part
\* of pwin).
HandleConfigure(width, height) ==
    /\ pwin' = IF width <= 0 \/ height <= 0 THEN pwin
               ELSE [pwin EXCEPT !.width = width, !.height = height]
    /\ press' = NoPress
    /\ UNCHANGED <<shell, input>>

\* window_set_decoration
WindowSetDecoration(decoration) ==
    /\ pwin' = [pwin EXCEPT !.decoration = decoration]
    /\ press' = NoPress
    /\ UNCHANGED <<shell, input>>

\* ------------------------------------------------ window geometry steps
\* A call through a NULL handler ends the process: no step follows it.

\* The shell's configure event.
GeomConfigure(edges, width, height) ==
    /\ ~g_call.null_call
    /\ gwin' = NoteConfigure(handle_configure(gwin, edges, width, height),
                              edges, width, height)
    /\ g_call' = [NoCall EXCEPT
                     !.op = "configure",
                     !.resize_args = configure_resize_args(gwin, width, height),
                     !.resize_calls = IF configure_resize_args(gwin, width, height) = <<>>
                                      THEN 0 ELSE 1]
    /\ pre_toggle' = NoRect

\* The client calls window_set_child_size.
GeomSetChildSize(width, height) ==
    /\ ~g_call.null_call
    /\ gwin' = window_set_child_size(gwin, width, height)
    /\ g_call' = [NoCall EXCEPT !.op = "set_child_size"]
    /\ pre_toggle' = NoRect

\* The client calls window_set_decoration.
GeomSetDecoration(decoration) ==
    /\ ~g_call.null_call
    /\ gwin' = [gwin EXCEPT !.decoration = decoration]
    /\ g_call' = [NoCall EXCEPT !.op = "set_decoration"]
    /\ pre_toggle' = NoRect

\* The client calls window_set_fullscreen.  With no resize handler set the
\* call that ends it goes through a NULL pointer.
GeomSetFullscreen(fullscreen) ==
    /\ ~g_call.null_call
    /\ LET returns == IsFullscreen(gwin) = fullscreen
           null == ~returns /\ gwin.resize_handler = "NULL"
       IN  /\ gwin' = IF null THEN fullscreen_switch(gwin, fullscreen)
                      ELSE window_set_fullscreen(gwin, fullscreen)
           /\ g_call' = [NoCall EXCEPT
                            !.op = "set_fullscreen",
                            !.null_call = null,
                            !.resize_calls = IF returns \/ null THEN 0 ELSE 1,
                            !.resize_args = IF returns \/ null THEN <<>>
                                            ELSE fullscreen_resize_args(gwin, fullscreen)]
           /\ pre_toggle' = IF ~returns /\ ~null /\ fullscreen # 0
                            THEN gwin.allocation ELSE NoRect

\* The client calls window_schedule_redraw.
GeomScheduleRedraw ==
    /\ ~g_call.null_call
    /\ gwin' = window_schedule_redraw(gwin)
    /\ g_call' = [NoCall EXCEPT !.op = "schedule_redraw"]
    /\ pre_toggle' = NoRect

\* display_run's drain runs the window's task: idle_redraw calls
\* window->redraw_handler, set or not, then clears redraw_scheduled.
GeomIdleRedraw ==
    /\ ~g_call.null_call
    /\ gwin.task_linked
    /\ gwin' = IF gwin.redraw_handler
               THEN [gwin EXCEPT !.task_linked = FALSE, !.redraw_scheduled = 0]
               ELSE [gwin EXCEPT !.task_linked = FALSE]
    /\ g_call' = [NoCall EXCEPT !.op = "idle_redraw",
                                !.null_call = ~gwin.redraw_handler]
    /\ pre_toggle' = NoRect

\* The client draws the window (window_create_surface succeeds) and calls
\* window_flush, which attaches the drawn surface.
GeomDrawFlush ==
    /\ ~g_call.null_call
    /\ gwin' = NoteAttach(attach_geometry(NoteDraw(gwin)), attach_request(gwin))
    /\ g_call' = [NoCall EXCEPT
                     !.op = "flush",
                     !.attach = attach_request(gwin),
                     !.buffer = IF attach_request(gwin) = <<>> THEN <<>>
                                ELSE NoteDraw(gwin).drawn_size,
                     !.damage = IF attach_request(gwin) = <<>> THEN <<>>
                                ELSE attach_damage(gwin)]
    /\ pre_toggle' = NoRect

\* free_surface: the pending surface is released and a surface drawn
\* meanwhile is attached.
GeomFreeSurface ==
    /\ ~g_call.null_call
    /\ gwin.pending
    /\ LET freed == [gwin EXCEPT !.pending = FALSE]
       IN  /\ gwin' = IF freed.drawn
                       THEN NoteAttach(attach_geometry(freed), attach_request(freed))
                       ELSE freed
           /\ g_call' = [NoCall EXCEPT
                            !.op = "free_surface",
                            !.attach = IF freed.drawn THEN attach_request(freed)
                                       ELSE <<>>,
                            !.buffer = freed.drawn_size,
                            !.damage = IF freed.drawn THEN attach_damage(freed)
                                       ELSE <<>>]
    /\ pre_toggle' = NoRect

\* ------------------------------------------------ item focus steps

\* window_handle_motion resolving the item under the pointer on every motion.
ItemMotion_NoGrabCheck(sx, sy) ==
    /\ ipointer.pointer_focus
    /\ LET set == window_set_focus_item(iwin, window_find_item(iwin, sx, sy))
       IN  /\ iwin' = set.win
           /\ i_call' = [op |-> "motion", before |-> iwin.focus_item,
                         calls |-> set.calls, arg |-> set.arg]
    /\ ipointer' = [ipointer EXCEPT !.sx = sx, !.sy = sy]

\* window_handle_motion on the pointer-focus window: the item under the
\* pointer gets the focus unless a button is grabbed on the focus item.
ItemMotion(sx, sy) ==
    /\ ipointer.pointer_focus
    /\ LET looks == iwin.focus_item = NULL \/ iwin.item_grab_button = NoButton
           set == IF looks
                  THEN window_set_focus_item(iwin, window_find_item(iwin, sx, sy))
                  ELSE [win |-> iwin, calls |-> 0, arg |-> NULL]
       IN  /\ iwin' = set.win
           /\ i_call' = [op |-> "motion", before |-> iwin.focus_item,
                         calls |-> set.calls, arg |-> set.arg]
    /\ ipointer' = [ipointer EXCEPT !.sx = sx, !.sy = sy]

\* window_handle_button on the pointer-focus window: a press over the focus
\* item grabs the button; the release of the grabbed button ends the grab and
\* gives the focus to the item under the pointer.
ItemButton(button, state) ==
    /\ ipointer.pointer_focus
    /\ LET w1 == IF /\ iwin.focus_item # NULL
                    /\ iwin.item_grab_button = NoButton
                    /\ state # 0
                 THEN [iwin EXCEPT !.item_grab_button = button] ELSE iwin
           ends == /\ w1.focus_item # NULL
                   /\ w1.item_grab_button = button
                   /\ state = 0
           set == IF ends
                  THEN window_set_focus_item(
                          [w1 EXCEPT !.item_grab_button = NoButton],
                          window_find_item(w1, ipointer.sx, ipointer.sy))
                  ELSE [win |-> w1, calls |-> 0, arg |-> NULL]
       IN  /\ iwin' = set.win
           /\ i_call' = [op |-> "button", before |-> iwin.focus_item,
                         calls |-> set.calls, arg |-> set.arg]
    /\ UNCHANGED ipointer

\* window_handle_pointer_focus with the window's own surface: the item at
\* the global position x, y gets the focus.
ItemPointerEnter(x, y, sx, sy) ==
    /\ LET set == window_set_focus_item(iwin, window_find_item(iwin, x, y))
       IN  /\ iwin' = set.win
           /\ i_call' = [op |-> "enter", before |-> iwin.focus_item,
                         calls |-> set.calls, arg |-> set.arg]
    /\ ipointer' = [pointer_focus |-> TRUE, sx |-> sx, sy |-> sy]

\* window_handle_pointer_focus with no surface or another window's, while the
\* pointer focus is on the window: the window loses its focus item.
ItemPointerLeave ==
    /\ ipointer.pointer_focus
    /\ LET set == window_set_focus_item(iwin, NULL)
       IN  /\ iwin' = set.win
           /\ i_call' = [op |-> "leave", before |-> iwin.focus_item,
                         calls |-> set.calls, arg |-> set.arg]
    /\ ipointer' = [ipointer EXCEPT !.pointer_focus = FALSE]

\* ------------------------------------------------ key steps

\* A key goes down while the window has the keyboard focus: the compositor
\* sends the key event and window_handle_key handles it.
KeyPress(key) ==
    /\ kinput.keyboard_focus
    /\ key \notin held
    /\ held' = held \cup {key}
    /\ kinput' = window_handle_key(kinput, key, 1)
    /\ k_call' = [k_call EXCEPT !.op = "press", !.key = key,
                                !.before = kinput.modifiers]

\* A key goes up while the window has the keyboard focus.
KeyRelease(key) ==
    /\ kinput.keyboard_focus
    /\ key \in held
    /\ held' = held \ {key}
    /\ kinput' = window_handle_key(kinput, key, 0)
    /\ k_call' = [k_call EXCEPT !.op = "release", !.key = key,
                                !.before = kinput.modifiers]

\* A key goes down or up while the keyboard focus is elsewhere: no event
\* reaches the client.
KeyChangeElsewhere(key) ==
    /\ ~kinput.keyboard_focus
    /\ held' = IF key \in held THEN held \ {key} ELSE held \cup {key}
    /\ UNCHANGED <<kinput, k_call>>

\* window_handle_keyboard_focus: the focus comes to the window or leaves it;
\* the event carries the keys that are down.
KeyboardFocus(focus) ==
    /\ kinput.keyboard_focus # focus
    /\ kinput' = window_handle_keyboard_focus(kinput, focus, held)
    /\ k_call' = [op |-> "focus", key |-> 0, before |-> kinput.modifiers,
                  focus_keys |-> held]
    /\ UNCHANGED held

\* ------------------------------------------------ process start steps

\* main calls display_create.
ProcDisplayCreate ==
    /\ proc.pc = "main"
    /\ LET r == display_create(proc.outcome)
       IN  proc' = IF r.exits
                   THEN [proc EXCEPT !.pc = "done", !.reported = 1,
                                     !.status = "exit EXIT_FAILURE"]
                   ELSE [proc EXCEPT !.pc = IF proc.client = "view"
                                            THEN "create" ELSE "check",
                                     !.d = r.d,
                                     !.reported = IF r.reported THEN 1 ELSE 0]

\* eventdemo's main tests the display it got.
ProcCheckDisplay ==
    /\ proc.pc = "check"
    /\ proc' = IF proc.d = "NULL"
               THEN [proc EXCEPT !.pc = "done", !.reported = @ + 1,
                                 !.status = "return -1"]
               ELSE [proc EXCEPT !.pc = "create"]

\* eventdemo's main creates its window and tests it.
ProcEventdemoCreate ==
    /\ proc.pc = "create"
    /\ proc.client = "eventdemo"
    /\ proc' = IF proc.alloc_ok
               THEN [proc EXCEPT !.pc = "display_run", !.windows = @ + 1]
               ELSE [proc EXCEPT !.pc = "done", !.reported = @ + 1,
                                 !.status = "return -1"]

\* view's main creates a view for the next file. With a null display
\* window_create reads through the null pointer: the process is killed or
\* goes on with what it read.
ProcViewCreate(killed) ==
    /\ proc.pc = "create"
    /\ proc.client = "view"
    /\ proc.i <= proc.files
    /\ proc.d = "NULL" \/ ~killed
    /\ proc' = IF proc.d = "NULL" /\ killed
               THEN [proc EXCEPT !.pc = "done", !.null_use = TRUE,
                                 !.status = "killed"]
               ELSE [proc EXCEPT !.i = @ + 1, !.windows = @ + 1,
                                 !.null_use = (proc.d = "NULL")]

\* view's main has a view for every file and goes on to display_run.
ProcViewCreated ==
    /\ proc.pc = "create"
    /\ proc.client = "view"
    /\ proc.i > proc.files
    /\ proc' = [proc EXCEPT !.pc = "display_run"]

\* display_run enters its loop and reads display->mask. With a null display
\* the process is killed there or goes on with what it read.
ProcDisplayRun(killed) ==
    /\ proc.pc = "display_run"
    /\ proc.d = "NULL" \/ ~killed
    /\ proc' = IF proc.d = "NULL" /\ killed
               THEN [proc EXCEPT !.pc = "done", !.null_use = TRUE,
                                 !.status = "killed"]
               ELSE [proc EXCEPT !.pc = "loop",
                                 !.null_use = @ \/ (proc.d = "NULL")]

\* ------------------------------------------------ window creation and destruction steps

\* window_create, or window_create_transient for a parent.
LifeCreate(parent, handler, ok) ==
    /\ ~life.used_freed
    /\ life.next <= MaxWindows
    /\ parent = NULL \/ parent \in DOMAIN life.win
    /\ life' = IF parent = NULL
               THEN window_create(life, handler, ok)
               ELSE window_create_transient(life, parent, handler, ok)

\* window_destroy(w) for a window that exists.
LifeDestroy(w) ==
    /\ ~life.used_freed
    /\ w \in DOMAIN life.win
    /\ life' = window_destroy(life, w)

\* window_handle_pointer_focus: the compositor names a surface that exists,
\* or none. The handler reads the surface of the window that has the focus.
LifePointerFocus(surface) ==
    /\ ~life.used_freed
    /\ surface = NULL \/ surface \in life.surfaces
    /\ LET old == life.pointer_focus
       IN  life' =
             IF old \in life.freed THEN UseFreed(life)
             ELSE [life EXCEPT !.pointer_focus = surface]

\* window_handle_keyboard_focus: the handler writes keyboard_device of the
\* window that has the focus.
LifeKeyboardFocus(surface, keys) ==
    /\ ~life.used_freed
    /\ surface = NULL \/ surface \in life.surfaces
    /\ LET old == life.keyboard_focus
       IN  life' =
             IF old \in life.freed THEN UseFreed(life)
             ELSE display_keyboard_focus(life, surface, keys)

\* window_schedule_redraw(w) for a window that exists.
LifeScheduleRedraw(w) ==
    /\ ~life.used_freed
    /\ w \in DOMAIN life.win
    /\ life' = IF life.win[w].redraw_scheduled # 0 THEN life
               ELSE [life EXCEPT !.win[w].redraw_scheduled = 1,
                                 !.deferred_list = display_defer(@, w)]

\* display_run takes the first deferred task and runs it: idle_redraw of the
\* window the task is part of.
LifeRunDeferred ==
    /\ ~life.used_freed
    /\ life.deferred_list # <<>>
    /\ LET w == Head(life.deferred_list)
       IN  life' =
             IF w \in life.freed THEN UseFreed(life)
             ELSE [life EXCEPT !.deferred_list = Tail(@),
                               !.win[w].redraw_scheduled = 0]

\* window_attach_surface(w) with no surface pending: the surface is attached
\* and free_surface is registered for its acknowledgment.
LifeAttach(w) ==
    /\ ~life.used_freed
    /\ w \in DOMAIN life.win
    /\ ~life.win[w].pending_surface
    /\ life' = [life EXCEPT !.win[w].pending_surface = TRUE,
                            !.callbacks = Append(@, w)]

\* The acknowledgment arrives: free_surface runs on the window it was
\* registered with.
LifeFreeSurface ==
    /\ ~life.used_freed
    /\ life.callbacks # <<>>
    /\ LET w == Head(life.callbacks)
       IN  life' =
             IF w \in life.freed THEN UseFreed(life)
             ELSE [life EXCEPT !.callbacks = Tail(@),
                               !.win[w].pending_surface = FALSE]

\* ------------------------------------------------ pointer image steps

\* window_handle_pointer_focus with the window's surface: the position is
\* taken, the enter handler asks for an image, set_pointer_image sets it.
CursorEnter(point, pointer) ==
    cursor' = LET set == set_pointer_image(
                             [cursor EXCEPT !.pointer_focus = TRUE,
                                            !.sx = point[1], !.sy = point[2]],
                             pointer)
              IN  [set EXCEPT !.shown = IF set.attach = "none"
                                        THEN cursor.shown ELSE set.attach]

\* window_handle_pointer_focus with no surface while the pointer focus is
\* on the window: the image is forgotten.
CursorLeave ==
    /\ cursor.pointer_focus
    /\ cursor' = [cursor EXCEPT !.pointer_focus = FALSE,
                                !.current_pointer_image = "POINTER_UNSET",
                                !.attach = "none", !.shown = "none"]

\* window_handle_motion: the position is taken, the motion handler asks for
\* an image, set_pointer_image sets it.
CursorMotion(point, pointer) ==
    /\ cursor.pointer_focus
    /\ cursor' = LET set == set_pointer_image(
                                [cursor EXCEPT !.sx = point[1], !.sy = point[2]],
                                pointer)
                 IN  [set EXCEPT !.shown = IF set.attach = "none"
                                           THEN cursor.shown ELSE set.attach]

\* ------------------------------------------------ text entry steps
\* The process is running: no assertion has failed, no read went astray.
EditorRunning == editor.call.fate = "running"

\* The entry after a handler, with what the handler left behind; the
\* assertion of text_entry_update_layout ends the process.
EditorAfter(entry, op, stderr, out_of_range, undefined) ==
    [entry |-> entry,
     call |-> [op |-> op, stderr |-> stderr, out_of_range |-> out_of_range,
               fate |-> IF undefined THEN "undefined"
                        ELSE IF ~LayoutAssertion(entry) THEN "aborted"
                        ELSE "running"]]

\* The text-input service commits a string.
EditCommitString(text, index) ==
    /\ EditorRunning
    /\ Len(editor.entry.text) + Len(text) <= MaxText
    /\ editor' = EditorAfter(text_model_commit_string(editor.entry, text, index),
                             "commit_string", commit_string_stderr(text, index),
                             index > Len(text), FALSE)

\* The text-input service sets a preedit string.
EditPreeditString(text, commit) ==
    /\ EditorRunning
    /\ Len(editor.entry.text) + Len(commit) <= MaxText
    /\ editor' = EditorAfter(text_model_preedit_string(editor.entry, text, commit),
                             "preedit_string", <<>>, FALSE, FALSE)

\* The text-input service deletes text around the cursor.
EditDeleteSurroundingText(index, length) ==
    /\ EditorRunning
    /\ LET outcome == delete_surrounding_outcome(editor.entry, index, length)
       IN  editor' =
              EditorAfter(text_model_delete_surrounding_text(editor.entry, index, length),
                          "delete_surrounding_text",
                          delete_surrounding_stderr(editor.entry, index, length),
                          \/ outcome \in {"invalid_index", "invalid_length"}
                          \/ length < 0,
                          outcome = "undefined")

\* text_entry_button_handler, left button pressed at a glyph boundary.
EditButtonPress(index) ==
    /\ EditorRunning
    /\ index \in GlyphBoundaries(text_entry_commit_and_reset(editor.entry).text)
    /\ editor' = EditorAfter(
                    text_entry_set_anchor_position(
                       text_entry_set_cursor_position(editor.entry, index), index),
                    "button", <<>>, FALSE, FALSE)

\* text_entry_motion_handler with the button held: the cursor follows.
EditMotion(index) ==
    /\ EditorRunning
    /\ index \in GlyphBoundaries(text_entry_commit_and_reset(editor.entry).text)
    /\ editor' = EditorAfter(text_entry_set_cursor_position(editor.entry, index),
                             "motion", <<>>, FALSE, FALSE)

\* ------------------------------------------------ steps of several input devices

\* The keyboard focus of device d moves to the surface of a window or to none.
DeviceKeyboardFocus(d, surface, keys) ==
    /\ devs.input[d].keyboard_focus # surface
    /\ devs' = [device_handle_keyboard_focus(devs, d, surface, keys)
                   EXCEPT !.call = [op |-> "focus", device |-> d,
                                    delivered |-> FALSE]]

\* A key event of device d, which the compositor sends while the device has
\* a keyboard focus.
DeviceKey(d, key, state) ==
    /\ devs.input[d].keyboard_focus # NULL
    /\ devs' = [device_handle_key(devs, d, key, state)
                   EXCEPT !.call = [op |-> "key", device |-> d,
                                    delivered |-> device_key_delivered(devs, d)]]

\* ------------------------------------------------ observers (history)

\* A call of window_schedule_redraw(w): the request is owed a handler run; the
\* task, if the call linked it, is the latest arrival.
ObserveSchedule(w) ==
    /\ owed' = [owed EXCEPT ![w] = TRUE]
    /\ arrival' = IF Len(deferred_list') > Len(deferred_list)
                  THEN Append(arrival, [task |-> w, ctx |-> Ctx, by |-> running])
                  ELSE arrival
    /\ UNCHANGED <<serving, iter_runs>>

\* The redraw handler of running' is started.
ObserveCall ==
    /\ arrival' = SelectSeq(arrival, LAMBDA e : e.task # running')
    /\ serving' = LET mine == SelectSeq(arrival, LAMBDA e : e.task = running')
                  IN  IF mine = <<>> THEN NoEntry ELSE Head(mine)
    /\ owed' = [owed EXCEPT ![running'] = FALSE]
    /\ iter_runs' = [iter_runs EXCEPT ![running'] = Min(@ + 1, RunCap)]

ObserveReturn ==
    /\ serving' = NoEntry
    /\ UNCHANGED <<arrival, owed, iter_runs>>

\* A new iteration of the loop begins.
ObserveIteration ==
    /\ iter_runs' = [w \in Windows |-> 0]
    /\ UNCHANGED <<arrival, owed, serving>>

\* A redraw: remember the surface it created.  It ends what the last
\* acknowledgment is remembered for; a failed allocation ends the burst.
ObserveDraw(w, ok) ==
    LET created == ok /\ ~(window[w].buffer_type = "EGL_WINDOW"
                            /\ window[w].cairo_surface # NULL)
    IN  /\ last_drawn' = [last_drawn EXCEPT ![w] =
                             IF created THEN NewSurface(window[w]) ELSE @]
        /\ fresh' = [fresh EXCEPT ![w] = created]
        /\ burst' = [burst EXCEPT ![w] =
                        IF window[w].buffer_type # "EGL_WINDOW" /\ ~ok THEN 0 ELSE @]
        /\ acked' = [acked EXCEPT ![w] = FALSE]

\* A flush of a drawn surface: the first round of a burst when it is attached,
\* one more round when it has to wait and was redrawn since the last flush.
ObserveFlush(w) ==
    /\ burst' = [burst EXCEPT ![w] =
                    IF window[w].cairo_surface = NULL
                       \/ window[w].buffer_type = "EGL_WINDOW" THEN @
                    ELSE IF window[w].sync_callbacks = 0 THEN 1
                    ELSE IF fresh[w] THEN Min(@ + 1, MaxBurst)
                    ELSE @]
    /\ fresh' = [fresh EXCEPT ![w] = FALSE]
    /\ UNCHANGED <<acked, last_drawn>>

\* An acknowledgment: the burst is over; a commit issued by free_surface is
\* the first round of the next.
ObserveFree(w) ==
    /\ acked' = [acked EXCEPT ![w] = (burst[w] >= 3)]
    /\ burst' = [burst EXCEPT ![w] =
                    IF window'[w].sync_callbacks > 0 THEN 1 ELSE 0]
    /\ UNCHANGED <<fresh, last_drawn>>

\* ------------------------------------------------ specifications

\* The event loop and redraw scheduling, with the scheduling history.
Next ==
    \/ DisplayRun /\ UNCHANGED <<hist_vars, input_vars, aux_vars>>
    \/ \E count \in 0..MaxReady :
          EpollWait(count) /\ UNCHANGED <<hist_vars, input_vars, aux_vars>>
    \/ TaskReturn /\ UNCHANGED <<hist_vars, input_vars, aux_vars>>
    \/ \E w \in Windows :
          FreeSurface(w) /\ UNCHANGED <<hist_vars, input_vars, aux_vars>>
    \/ \E w \in Windows :
          WindowScheduleRedraw(w) /\ ObserveSchedule(w)
             /\ UNCHANGED <<surf_hist, input_vars, aux_vars>>
    \/ \E w \in Windows, ok \in BOOLEAN :
          WindowCreateSurface(w, ok) /\ UNCHANGED <<hist_vars, input_vars, aux_vars>>
    \/ \E w \in Windows :
          WindowFlush(w) /\ UNCHANGED <<hist_vars, input_vars, aux_vars>>
    \/ IdleRedrawCall /\ ObserveCall /\ UNCHANGED <<surf_hist, input_vars, aux_vars>>
    \/ IdleRedrawReturn /\ ObserveReturn /\ UNCHANGED <<surf_hist, input_vars, aux_vars>>
    \/ DrainDone /\ ObserveIteration /\ UNCHANGED <<surf_hist, input_vars, aux_vars>>

Spec == Init /\ [][Next]_vars

\* The same program, with the surface history instead.
SurfaceNext ==
    \/ DisplayRun /\ UNCHANGED <<hist_vars, input_vars, aux_vars>>
    \/ \E count \in 0..MaxReady :
          EpollWait(count) /\ UNCHANGED <<hist_vars, input_vars, aux_vars>>
    \/ TaskReturn /\ UNCHANGED <<hist_vars, input_vars, aux_vars>>
    \/ \E w \in Windows :
          FreeSurface(w) /\ ObserveFree(w) /\ UNCHANGED <<sched_hist, input_vars, aux_vars>>
    \/ \E w \in Windows :
          WindowScheduleRedraw(w) /\ UNCHANGED <<hist_vars, input_vars, aux_vars>>
    \/ \E w \in Windows, ok \in BOOLEAN :
          WindowCreateSurface(w, ok) /\ ObserveDraw(w, ok)
             /\ UNCHANGED <<sched_hist, input_vars, aux_vars>>
    \/ \E w \in Windows :
          WindowFlush(w) /\ ObserveFlush(w) /\ UNCHANGED <<sched_hist, input_vars, aux_vars>>
    \/ IdleRedrawCall /\ UNCHANGED <<hist_vars, input_vars, aux_vars>>
    \/ IdleRedrawReturn /\ UNCHANGED <<hist_vars, input_vars, aux_vars>>
    \/ DrainDone /\ UNCHANGED <<hist_vars, input_vars, aux_vars>>

SurfaceSpec == Init /\ [][SurfaceNext]_vars

\* Pointer input on one window.
InputNext ==
    \/ \E sx \in SampleCoords(pwin.width), sy \in SampleCoords(pwin.height) :
          WindowHandleMotion(sx, sy) /\ UNCHANGED <<loop_vars, hist_vars, aux_vars>>
    \/ \E button \in Buttons, state \in {0, 1} :
          WindowHandleButton(button, state) /\ UNCHANGED <<loop_vars, hist_vars, aux_vars>>
    \/ \E width \in Widths \cup {0}, height \in Heights \cup {0} :
          HandleConfigure(width, height) /\ UNCHANGED <<loop_vars, hist_vars, aux_vars>>
    \/ \E decoration \in {0, 1} :
          WindowSetDecoration(decoration) /\ UNCHANGED <<loop_vars, hist_vars, aux_vars>>

InputSpec == PointerInit /\ [][InputNext]_vars

\* Configure events, child sizes, fullscreen and attaches of one window.
GeometryNext ==
    \/ \E edges \in ConfigureEdges, width \in ConfigureWidths,
          height \in ConfigureHeights :
          GeomConfigure(edges, width, height)
             /\ UNCHANGED <<loop_vars, hist_vars, input_vars, item_vars, key_vars, proc, life, cursor, editor, devs>>
    \/ \E size \in ChildSizes :
          GeomSetChildSize(size[1], size[2])
             /\ UNCHANGED <<loop_vars, hist_vars, input_vars, item_vars, key_vars, proc, life, cursor, editor, devs>>
    \/ \E decoration \in {0, 1} :
          GeomSetDecoration(decoration)
             /\ UNCHANGED <<loop_vars, hist_vars, input_vars, item_vars, key_vars, proc, life, cursor, editor, devs>>
    \/ \E fullscreen \in FullscreenFlags :
          GeomSetFullscreen(fullscreen)
             /\ UNCHANGED <<loop_vars, hist_vars, input_vars, item_vars, key_vars, proc, life, cursor, editor, devs>>
    \/ GeomScheduleRedraw /\ UNCHANGED <<loop_vars, hist_vars, input_vars, item_vars, key_vars, proc, life, cursor, editor, devs>>
    \/ GeomIdleRedraw /\ UNCHANGED <<loop_vars, hist_vars, input_vars, item_vars, key_vars, proc, life, cursor, editor, devs>>
    \/ GeomDrawFlush /\ UNCHANGED <<loop_vars, hist_vars, input_vars, item_vars, key_vars, proc, life, cursor, editor, devs>>
    \/ GeomFreeSurface /\ UNCHANGED <<loop_vars, hist_vars, input_vars, item_vars, key_vars, proc, life, cursor, editor, devs>>

GeometrySpec == GeometryInit /\ [][GeometryNext]_vars

\* Pointer events on a window with items.
ItemNext ==
    \/ \E sx \in ItemXs, sy \in ItemYs :
          ItemMotion(sx, sy)
             /\ UNCHANGED <<loop_vars, hist_vars, input_vars, geom_vars, key_vars, proc, life, cursor, editor, devs>>
    \/ \E button \in Buttons, state \in {0, 1} :
          ItemButton(button, state)
             /\ UNCHANGED <<loop_vars, hist_vars, input_vars, geom_vars, key_vars, proc, life, cursor, editor, devs>>
    \/ \E x \in ItemXs, y \in ItemYs, sx \in ItemXs, sy \in ItemYs :
          ItemPointerEnter(x, y, sx, sy)
             /\ UNCHANGED <<loop_vars, hist_vars, input_vars, geom_vars, key_vars, proc, life, cursor, editor, devs>>
    \/ ItemPointerLeave
          /\ UNCHANGED <<loop_vars, hist_vars, input_vars, geom_vars, key_vars, proc, life, cursor, editor, devs>>

ItemSpec == ItemFocusInit /\ [][ItemNext]_vars

\* Key and keyboard-focus events on one window.
KeyNext ==
    \/ \E key \in Keys :
          KeyPress(key)
             /\ UNCHANGED <<loop_vars, hist_vars, input_vars, geom_vars, item_vars, proc, life, cursor, editor, devs>>
    \/ \E key \in Keys :
          KeyRelease(key)
             /\ UNCHANGED <<loop_vars, hist_vars, input_vars, geom_vars, item_vars, proc, life, cursor, editor, devs>>
    \/ \E key \in Keys :
          KeyChangeElsewhere(key)
             /\ UNCHANGED <<loop_vars, hist_vars, input_vars, geom_vars, item_vars, proc, life, cursor, editor, devs>>
    \/ \E focus \in BOOLEAN :
          KeyboardFocus(focus)
             /\ UNCHANGED <<loop_vars, hist_vars, input_vars, geom_vars, item_vars, proc, life, cursor, editor, devs>>

KeySpec == KeyInit /\ [][KeyNext]_vars

\* main of a client up to the loop of display_run.
StartNext ==
    \/ ProcDisplayCreate
          /\ UNCHANGED <<loop_vars, hist_vars, input_vars, geom_vars, item_vars, key_vars, life, cursor, editor, devs>>
    \/ ProcCheckDisplay
          /\ UNCHANGED <<loop_vars, hist_vars, input_vars, geom_vars, item_vars, key_vars, life, cursor, editor, devs>>
    \/ ProcEventdemoCreate
          /\ UNCHANGED <<loop_vars, hist_vars, input_vars, geom_vars, item_vars, key_vars, life, cursor, editor, devs>>
    \/ \E killed \in BOOLEAN :
          ProcViewCreate(killed)
             /\ UNCHANGED <<loop_vars, hist_vars, input_vars, geom_vars, item_vars, key_vars, life, cursor, editor, devs>>
    \/ ProcViewCreated
          /\ UNCHANGED <<loop_vars, hist_vars, input_vars, geom_vars, item_vars, key_vars, life, cursor, editor, devs>>
    \/ \E killed \in BOOLEAN :
          ProcDisplayRun(killed)
             /\ UNCHANGED <<loop_vars, hist_vars, input_vars, geom_vars, item_vars, key_vars, life, cursor, editor, devs>>

StartSpec == StartInit /\ [][StartNext]_vars

\* Windows of one display created and destroyed, and the focus events.
WindowsNext ==
    \/ \E parent \in {NULL} \cup (1..MaxWindows), handler \in BOOLEAN,
          ok \in BOOLEAN :
          LifeCreate(parent, handler, ok)
             /\ UNCHANGED <<loop_vars, hist_vars, input_vars, geom_vars, item_vars, key_vars, proc, cursor, editor, devs>>
    \/ \E w \in 1..MaxWindows :
          LifeDestroy(w)
             /\ UNCHANGED <<loop_vars, hist_vars, input_vars, geom_vars, item_vars, key_vars, proc, cursor, editor, devs>>
    \/ \E surface \in {NULL} \cup (1..MaxWindows) :
          LifePointerFocus(surface)
             /\ UNCHANGED <<loop_vars, hist_vars, input_vars, geom_vars, item_vars, key_vars, proc, cursor, editor, devs>>
    \/ \E surface \in {NULL} \cup (1..MaxWindows), keys \in FocusKeySets :
          LifeKeyboardFocus(surface, keys)
             /\ UNCHANGED <<loop_vars, hist_vars, input_vars, geom_vars, item_vars, key_vars, proc, cursor, editor, devs>>

\* The redraw tasks and acknowledgments of the windows.
WindowTasksNext ==
    \/ \E w \in 1..MaxTasked :
          LifeScheduleRedraw(w)
             /\ UNCHANGED <<loop_vars, hist_vars, input_vars, geom_vars, item_vars, key_vars, proc, cursor, editor, devs>>
    \/ LifeRunDeferred
          /\ UNCHANGED <<loop_vars, hist_vars, input_vars, geom_vars, item_vars, key_vars, proc, cursor, editor, devs>>
    \/ \E w \in 1..MaxTasked :
          LifeAttach(w)
             /\ UNCHANGED <<loop_vars, hist_vars, input_vars, geom_vars, item_vars, key_vars, proc, cursor, editor, devs>>
    \/ LifeFreeSurface
          /\ UNCHANGED <<loop_vars, hist_vars, input_vars, geom_vars, item_vars, key_vars, proc, cursor, editor, devs>>

\* Windows destroyed while events for them are still to come.
TeardownNext == WindowsNext \/ WindowTasksNext

TeardownSpec == WindowsInit /\ [][TeardownNext]_vars

WindowsSpec == WindowsInit /\ [][WindowsNext]_vars

\* Enter, leave and motion events of one input device on one window.
CursorNext ==
    \/ \E point \in CursorPoints, pointer \in PointerHints :
          CursorEnter(point, pointer)
             /\ UNCHANGED <<loop_vars, hist_vars, input_vars, geom_vars, item_vars, key_vars, proc, life, editor, devs>>
    \/ CursorLeave
          /\ UNCHANGED <<loop_vars, hist_vars, input_vars, geom_vars, item_vars, key_vars, proc, life, editor, devs>>
    \/ \E point \in CursorPoints, pointer \in PointerHints :
          CursorMotion(point, pointer)
             /\ UNCHANGED <<loop_vars, hist_vars, input_vars, geom_vars, item_vars, key_vars, proc, life, editor, devs>>

CursorSpec == CursorStart /\ [][CursorNext]_vars

\* The specification of the scheduling claims under the fairness the code's
\* control flow gives: display_run is called, handlers and tasks return, the
\* drain loop goes on while the list is not empty, and (the claims' proviso)
\* descriptors keep becoming ready, so that the loop keeps iterating.
FairSpec ==
    /\ Spec
    /\ WF_vars(DisplayRun /\ UNCHANGED <<hist_vars, input_vars, aux_vars>>)
    /\ WF_vars(\E count \in 0..MaxReady :
                  EpollWait(count) /\ UNCHANGED <<hist_vars, input_vars, aux_vars>>)
    /\ WF_vars(TaskReturn /\ UNCHANGED <<hist_vars, input_vars, aux_vars>>)
    /\ WF_vars(IdleRedrawCall /\ ObserveCall /\ UNCHANGED <<surf_hist, input_vars, aux_vars>>)
    /\ WF_vars(IdleRedrawReturn /\ ObserveReturn
                  /\ UNCHANGED <<surf_hist, input_vars, aux_vars>>)
    /\ WF_vars(DrainDone /\ ObserveIteration /\ UNCHANGED <<surf_hist, input_vars, aux_vars>>)

\* The editor's entry under the events of the text-input service and the
\* pointer.
EditorNext ==
    \/ \E text \in CommitTexts, index \in CommitIndexes :
          EditCommitString(text, index)
             /\ UNCHANGED <<loop_vars, hist_vars, input_vars, geom_vars, item_vars, key_vars, proc, life, cursor, devs>>
    \/ \E text \in PreeditTexts, commit \in PreeditCommits :
          EditPreeditString(text, commit)
             /\ UNCHANGED <<loop_vars, hist_vars, input_vars, geom_vars, item_vars, key_vars, proc, life, cursor, devs>>
    \/ \E index \in DeleteIndexes, length \in DeleteLengths :
          EditDeleteSurroundingText(index, length)
             /\ UNCHANGED <<loop_vars, hist_vars, input_vars, geom_vars, item_vars, key_vars, proc, life, cursor, devs>>
    \/ \E index \in 0..MaxText :
          EditButtonPress(index)
             /\ UNCHANGED <<loop_vars, hist_vars, input_vars, geom_vars, item_vars, key_vars, proc, life, cursor, devs>>
    \/ \E index \in 0..MaxText :
          EditMotion(index)
             /\ UNCHANGED <<loop_vars, hist_vars, input_vars, geom_vars, item_vars, key_vars, proc, life, cursor, devs>>

EditorSpec == EditorStart /\ [][EditorNext]_vars

\* Keyboard-focus and key events of several input devices, interleaved.
DevicesNext ==
    \/ \E d \in Devices, surface \in {NULL} \cup DeviceWindows,
          keys \in DeviceKeySets :
          DeviceKeyboardFocus(d, surface, keys)
             /\ UNCHANGED <<loop_vars, hist_vars, input_vars, geom_vars, item_vars, key_vars, proc, life, cursor, editor>>
    \/ \E d \in Devices, key \in DeviceKeys, state \in {0, 1} :
          DeviceKey(d, key, state)
             /\ UNCHANGED <<loop_vars, hist_vars, input_vars, geom_vars, item_vars, key_vars, proc, life, cursor, editor>>

DevicesSpec == DevicesInit /\ [][DevicesNext]_vars

\* Configure events of every kind of size on a window that is decorated or
\* not.
ResizeWidths == {0, 30, 490}
ResizeHeights == {-1, 50, 390}

ResizeNext ==
    \/ \E edges \in ConfigureEdges, width \in ResizeWidths,
          height \in ResizeHeights :
          GeomConfigure(edges, width, height)
             /\ UNCHANGED <<loop_vars, hist_vars, input_vars, item_vars, key_vars, proc, life, cursor, editor, devs>>
    \/ \E size \in ChildSizes :
          GeomSetChildSize(size[1], size[2])
             /\ UNCHANGED <<loop_vars, hist_vars, input_vars, item_vars, key_vars, proc, life, cursor, editor, devs>>
    \/ \E decoration \in {0, 1} :
          GeomSetDecoration(decoration)
             /\ UNCHANGED <<loop_vars, hist_vars, input_vars, item_vars, key_vars, proc, life, cursor, editor, devs>>

ResizeSpec == GeometryInit /\ [][ResizeNext]_vars

\* ------------------------------------------------------------ claims

\* The redraw handler of w is started in this step.
HandlerStarts(w) == running' = w /\ running # w

\* C1: at most one buffer commit (attach plus acknowledgment callback) is
\* outstanding per window, whatever its buffer type: no window ever has two
\* sync callbacks registered, and while one is outstanding no step other than
\* its free_surface sends an attach or registers a callback.
C1_OneCommitOutstanding ==
    [][\A w \in Windows :
          /\ window'[w].sync_callbacks <= 1
          /\ (window[w].sync_callbacks >= 1 /\ ~FreeSurface(w)) =>
                /\ window'[w].attached_buffer = window[w].attached_buffer
                /\ window'[w].sync_callbacks = window[w].sync_callbacks]_vars

\* C1 witness: a flush of a redrawn surface was issued while a commit was
\* outstanding (second round of the burst) and the commit is still the only one.
C1_Witness ==
    \E w \in Windows :
        /\ burst[w] >= 2
        /\ window[w].sync_callbacks = 1
        /\ window[w].pending_surface # NULL
        /\ window[w].attached_buffer = window[w].pending_surface
        /\ window[w].cairo_surface # NULL

\* C2: three redraw+flush rounds before the first acknowledgment leave exactly
\* one commit outstanding; no step before free_surface issues another; the
\* free_surface step issues exactly one, carrying the surface of the last
\* redraw; an acknowledgment that finds no drawn surface issues none.
C2_ThreeRedrawsCoalesce ==
    [][\A w \in Windows :
          /\ burst'[w] >= 1 => window'[w].sync_callbacks = 1
          /\ (burst[w] >= 1 /\ ~FreeSurface(w)) =>
                window'[w].attached_buffer = window[w].attached_buffer
          /\ (burst[w] >= 3 /\ FreeSurface(w)) =>
                /\ window'[w].sync_callbacks = 1
                /\ window'[w].attached_buffer = last_drawn[w]
                /\ window'[w].pending_surface = last_drawn[w]
                /\ window'[w].pending_surface # window[w].pending_surface
                /\ window'[w].cairo_surface = NULL
          /\ (window[w].cairo_surface = NULL /\ FreeSurface(w)) =>
                /\ window'[w].sync_callbacks = 0
                /\ window'[w].attached_buffer = NULL]_vars

\* C2 witness: the first acknowledgment after three rounds has issued the one
\* further commit, of the surface drawn last.
C2_Witness ==
    \E w \in Windows :
        /\ acked[w]
        /\ window[w].sync_callbacks = 1
        /\ window[w].pending_surface = last_drawn[w]
        /\ window[w].cairo_surface = NULL

C4_NoRedrawRequestLost ==
    \A w \in Windows : owed[w] ~> ~owed[w]

\* C5 as claimed: the drain runs the task that display_defer got first.
C5_DeferredFifo ==
    [][IdleRedrawCall => running' = Head(arrival).task]_vars

\* C6: the redraw handler is started only by the drain of display_run, after
\* the task of every ready descriptor has returned, never inside a callback.
C6_RedrawOnlyInDrain ==
    [][\A w \in Windows :
          HandlerStarts(w) =>
             /\ phase = "drain" /\ phase' = "drain"
             /\ ready = 0
             /\ Ctx = "none"]_vars

\* C6 witness: the handler is running for a request made in an event callback.
C6_Witness ==
    /\ running # NULL
    /\ serving.task = running
    /\ serving.ctx = "event"

\* C7 as claimed: no window's redraw handler starts twice in one iteration.
C7_AtMostOncePerIteration ==
    \A w \in Windows : iter_runs[w] <= 1

\* C7 amended: a window's redraw task is linked at most once at a time, and its
\* handler starts a second time in one iteration only for a request that the
\* redraw handler of another window made during the drain.
C7_OncePerIterationUnlessRequeued ==
    [][/\ \A w \in Windows :
             Cardinality({i \in DOMAIN deferred_list' : deferred_list'[i] = w}) <= 1
       /\ \A w \in Windows :
             (HandlerStarts(w) /\ iter_runs[w] >= 1) =>
                /\ serving'.task = w
                /\ serving'.ctx = "redraw"
                /\ serving'.by \in Windows \ {w}]_vars

\* C7 witness: a handler runs for the second time in the iteration, requested
\* by the other window's handler; several calls had been made for it.
C7_Witness ==
    /\ running # NULL
    /\ iter_runs[running] >= 2
    /\ serving.by \in Windows \ {running}

\* A button press was the input event handled last, on a decorated window.
PressOnDecorated == press.state = 1 /\ pwin.decoration = 1

\* The pointer is outside [0, width] x [0, height].
Outside ==
    \/ input.sx < 0 \/ input.sx > pwin.width
    \/ input.sy < 0 \/ input.sy > pwin.height

\* dim leaves room for both grips around its middle: dim \div 2 lies between
\* the grip after the margin and the grip before the far margin.
MiddleIsInterior(dim) ==
    /\ pwin.margin + grip_size <= dim \div 2
    /\ dim \div 2 < dim - pwin.margin - grip_size

\* C8 as claimed: a press at (g/2, h/2) on a decorated window is classified
\* RESIZING_LEFT, whatever the margin, width and height.
C8_GripHalfIsResizingLeft ==
    (/\ PressOnDecorated
     /\ input.sx = grip_size \div 2
     /\ input.sy = pwin.height \div 2)
       => press.location = WINDOW_RESIZING_LEFT

\* C8 amended: the grip starts at the margin, so it is a press at
\* (m + g/2, h/2) that is classified RESIZING_LEFT, for every width, provided
\* h/2 lies between the top and the bottom grip.
C8_MarginPlusGripHalfIsResizingLeft ==
    (/\ PressOnDecorated
     /\ input.sx = pwin.margin + grip_size \div 2
     /\ input.sy = pwin.height \div 2
     /\ MiddleIsInterior(pwin.height))
       => press.location = WINDOW_RESIZING_LEFT

\* C8 witness: a press at (20, 200) on a decorated window 400 high was
\* classified RESIZING_LEFT.
C8_Witness ==
    /\ PressOnDecorated
    /\ pwin.height = 400
    /\ input = [sx |-> DefaultMargin + grip_size \div 2, sy |-> 200]
    /\ press.location = WINDOW_RESIZING_LEFT

\* C9 as claimed: on a decorated window a press at (w/2, h/2) is never
\* classified as a resize edge and sends no resize, and a press outside
\* [0, w] x [0, h] is classified exterior and sends no request.
C9_MiddleInteriorOutsideExterior ==
    PressOnDecorated =>
       /\ (input.sx = pwin.width \div 2 /\ input.sy = pwin.height \div 2) =>
             /\ press.location \in {WINDOW_TITLEBAR, WINDOW_CLIENT_AREA}
             /\ press.request \in {<<"none">>, <<"move">>}
       /\ Outside =>
             /\ press.location = WINDOW_EXTERIOR
             /\ press.request = <<"none">>
             /\ press.handler_calls = 0 \/ ~(shell /\ press.button = "BTN_LEFT")

\* C9 amended: the same, the first part for windows whose width and height
\* both leave room for the grips around the middle (49 or more with margin
\* 16), the second for windows whose width and height are both at least
\* m + g - 1 (23), so that no point beyond the far edge falls into the near
\* grip.
C9_MiddleInteriorOutsideExteriorIfRoom ==
    PressOnDecorated =>
       /\ (/\ input.sx = pwin.width \div 2
           /\ input.sy = pwin.height \div 2
           /\ MiddleIsInterior(pwin.width)
           /\ MiddleIsInterior(pwin.height)) =>
             /\ press.location \in {WINDOW_TITLEBAR, WINDOW_CLIENT_AREA}
             /\ press.request \in {<<"none">>, <<"move">>}
       /\ (/\ Outside
           /\ pwin.width >= pwin.margin + grip_size - 1
           /\ pwin.height >= pwin.margin + grip_size - 1) =>
             /\ press.location = WINDOW_EXTERIOR
             /\ press.request = <<"none">>
             /\ press.handler_calls = 0 \/ ~(shell /\ press.button = "BTN_LEFT")

\* C9 witness: a left press at the middle (250, 200) of a decorated 500x400
\* window on a display with a shell went to the client's button handler as a
\* client-area press, with no request to the shell.
C9_Witness ==
    /\ PressOnDecorated
    /\ shell
    /\ press.button = "BTN_LEFT"
    /\ pwin.width = 500 /\ pwin.height = 400 /\ pwin.button_handler
    /\ input = [sx |-> 250, sy |-> 200]
    /\ press.location = WINDOW_CLIENT_AREA
    /\ press.request = <<"none">>
    /\ press.handler_calls = 1

\* The press of C10: a left-button press at (20, 20) on a decorated 500x400
\* window of margin 16.
TopLeftPress ==
    /\ PressOnDecorated
    /\ press.button = "BTN_LEFT"
    /\ pwin.margin = 16 /\ pwin.width = 500 /\ pwin.height = 400
    /\ input = [sx |-> 20, sy |-> 20]

\* What C10 expects of it: classified RESIZING_TOP_LEFT, a resize request
\* with the edges TOP | LEFT, the client's button handler not called.
TopLeftResize ==
    /\ press.location = WINDOW_RESIZING_TOP_LEFT
    /\ press.request =
          <<"resize", BitOr(WINDOW_RESIZING_TOP, WINDOW_RESIZING_LEFT)>>
    /\ press.handler_calls = 0

\* C10 as claimed: a left press at (20, 20) on a decorated 500x400 window of
\* margin 16 is classified RESIZING_TOP_LEFT and sends wl_shell_resize with
\* the edges TOP | LEFT, without calling the client's button handler.
C10_TopLeftPressResizes ==
    TopLeftPress => TopLeftResize

\* C10 amended: it does so when the display has bound a shell; without one the
\* classification is the same but nothing is sent.
C10_TopLeftPressResizesWithShell ==
    TopLeftPress =>
       /\ press.location = WINDOW_RESIZING_TOP_LEFT
       /\ shell => TopLeftResize
       /\ ~shell => press.request = <<"none">>

\* C10 witness: such a press on a window with a button handler, on a display
\* with a shell, has sent the resize and not called the handler.
C10_Witness ==
    /\ TopLeftPress
    /\ shell
    /\ pwin.button_handler
    /\ TopLeftResize

\* The drag of C11: the decorated 500x400 window of margin 16, whose resize
\* handler applies the size it is given, gets the configure event of a resize
\* by its top-left corner after a pointer drag by (+10, +10).
TopLeftDragConfigure ==
    /\ gwin.decoration = 1 /\ gwin.margin = 16
    /\ gwin.allocation.width = 500 /\ gwin.allocation.height = 400
    /\ gwin.resize_handler = "apply"
    /\ GeomConfigure(WINDOW_RESIZING_TOP_LEFT, 490, 390)

ResizeOffset(win) ==
    window_get_resize_dx_dy([win EXCEPT !.resize_edges = win.uncommitted_edges])

\* C28: every attach carries, for a buffer drawn after a resize from the left
\* or top edge, the width or height attached last less the new one, and 0 on
\* an axis not resized from the left or top; also when the attach waited behind
\* a pending buffer and is sent from free_surface.
C28_AttachCarriesResizeOffset ==
    [][g_call'.attach # <<>> => g_call'.attach = ResizeOffset(gwin)]_vars

\* What get_pointer_location may return: a single edge, a corner, exterior,
\* title bar or client area.
Locations ==
    ResizeLocations \cup {WINDOW_EXTERIOR, WINDOW_TITLEBAR, WINDOW_CLIENT_AREA}

\* C12: for every window geometry and every point get_pointer_location
\* returns one of the eight resize locations, exterior, title bar or client
\* area, never the raw interior value nor another combination of bits; a
\* point that is exterior horizontally or vertically is exterior; and the
\* location a button event was classified as is that of the window and the
\* point alone.
C12_ClassificationExhaustive ==
    LET location == get_pointer_location(pwin, input.sx, input.sy)
    IN  /\ location \in Locations
        /\ (/\ pwin.decoration # 0
            /\ \/ hlocation(pwin, input.sx) = WINDOW_EXTERIOR
               \/ vlocation(pwin, input.sy) = WINDOW_EXTERIOR)
              => location = WINDOW_EXTERIOR
        /\ pwin.decoration = 0 => location = WINDOW_CLIENT_AREA
        /\ press # NoPress => press.location = location

\* C12 witness: a press on a decorated window narrower than twice margin plus
\* grip, at a point outside the surface vertically and in a grip
\* horizontally, was classified exterior.
C12_Witness ==
    /\ press.state = 1
    /\ pwin.decoration = 1
    /\ pwin.width < 2 * (pwin.margin + grip_size)
    /\ hlocation(pwin, input.sx) = WINDOW_RESIZING_LEFT
    /\ input.sy < 0
    /\ press.location = WINDOW_EXTERIOR

\* C13 as claimed: window_set_fullscreen(false) right after
\* window_set_fullscreen(true), on a window whose resize handler applies the
\* size it is given, restores the allocation the window had before the two.
C13_FullscreenToggleRestoresAllocation ==
    [][(/\ pre_toggle # NoRect
        /\ gwin.resize_handler = "apply"
        /\ GeomSetFullscreen(0)) =>
          gwin'.allocation = pre_toggle]_vars

\* The call window_set_fullscreen(fullscreen) repeats the state the window is in.
RepeatsFullscreenState(fullscreen) ==
    (gwin.type = "TYPE_FULLSCREEN") <=> (fullscreen # 0)

\* C14 as claimed: on a window with a resize handler, a call of
\* window_set_fullscreen that changes the state calls the handler once (with
\* the screen's size after saving the allocation on entering, with the size
\* computed from the saved allocation on leaving); a call that repeats the
\* state, whatever the value of the flag, changes nothing and calls no handler.
C14_FullscreenIdempotent ==
    [][\A fullscreen \in FullscreenFlags :
          (gwin.resize_handler # "NULL" /\ GeomSetFullscreen(fullscreen)) =>
             IF RepeatsFullscreenState(fullscreen)
             THEN /\ gwin' = gwin
                  /\ g_call'.resize_calls = 0
             ELSE /\ g_call'.resize_calls = 1
                  /\ fullscreen # 0 =>
                        /\ gwin'.saved_allocation = gwin.allocation
                        /\ g_call'.resize_args = <<Screen.width, Screen.height>>
                  /\ fullscreen = 0 =>
                        g_call'.resize_args =
                           <<gwin.saved_allocation.width - 20 - gwin.margin * 2,
                             gwin.saved_allocation.height - 60 - gwin.margin * 2>>]_vars

\* C20 as claimed: no toolkit operation calls a handler that is NULL.
C20_NoNullHandlerCalled ==
    ~g_call.null_call

\* A pointer event changed the focus item.
FocusItemChanges == iwin'.focus_item # iwin.focus_item

\* C15: the item-focus handler, if one is set, is called exactly once, with
\* the new focus item, by every event that changes the focus item (to an
\* item, to another item or to no item), and is not called by an event that
\* leaves the focus item the same; with no handler set nothing is called.
C15_ItemFocusHandlerOncePerChange ==
    [][ItemNext =>
          /\ i_call'.before = iwin.focus_item
          /\ IF FocusItemChanges /\ iwin.item_focus_handler
             THEN i_call'.calls = 1 /\ i_call'.arg = iwin'.focus_item
             ELSE i_call'.calls = 0]_vars

\* A motion took the focus from the first item to the second with one call
\* of the handler.
C15_Witness ==
    /\ i_call.op = "motion"
    /\ i_call.before = 1
    /\ iwin.focus_item = 2
    /\ i_call.calls = 1
    /\ i_call.arg = 2

\* A repeated motion over the focus item made no call.
C15_WitnessSameItem ==
    /\ i_call.op = "motion"
    /\ i_call.before = 1
    /\ iwin.focus_item = 1
    /\ iwin.item_focus_handler
    /\ i_call.calls = 0

\* The modifier bits of the keys of a set, by the keymap.
ModifiersOf(keys) ==
    OrOver([k \in Keys |-> xkb.modmap[k + xkb.min_key_code]], keys)

\* The keys that carry a modifier.
ModifierKeys == {k \in Keys : ModifiersOf({k}) # 0}

\* C16: for every modifier key k and every mask M before its press, the
\* release of k that follows the press of k leaves the mask equal to M,
\* also when another held key carries the same modifier.
C16_PressReleaseRestoresMask ==
    [][\A key \in ModifierKeys :
          (/\ k_call.op = "press"
           /\ k_call.key = key
           /\ KeyRelease(key))
          => input_get_modifiers(kinput') = k_call.before]_vars

\* C17: while the window has the keyboard focus, which it got with no key
\* down, the mask is the OR of the modifier bits of exactly the keys that
\* are held.
C17_MaskIsOrOfHeldKeys ==
    (kinput.keyboard_focus /\ k_call.focus_keys = {})
    => input_get_modifiers(kinput) = ModifiersOf(held)

\* window_create_surface asks for a new buffer for the window (it does not
\* when an EGL window surface exists, which it only resizes).
AllocatesBuffer(w) ==
    ~(window[w].buffer_type = "EGL_WINDOW" /\ window[w].cairo_surface # NULL)

\* C18: a redraw whose buffer allocation fails sends no attach, leaves the
\* window the surfaces it had (the pending one and the drawn one waiting
\* behind it), and schedules no retry.
C18_FailedRedrawKeepsSurfaces ==
    [][\A w \in Windows :
          (AllocatesBuffer(w) /\ WindowCreateSurface(w, FALSE))
          => /\ window'[w].pending_surface = window[w].pending_surface
             /\ window'[w].cairo_surface = window[w].cairo_surface
             /\ window'[w].redraw_scheduled = window[w].redraw_scheduled
             /\ deferred_list' = deferred_list]_vars

\* The connection to the compositor failed in display_create.
ConnectFailed == proc.outcome = "connect failed" /\ proc.pc # "main"

\* C19: when connecting fails in display_create the failure is reported and
\* the process exits with a non-zero status: no window is created, the loop
\* of display_run is never entered with the failed display, and nothing
\* reads through the null display.
C19_ConnectFailureExits ==
    ConnectFailed =>
        /\ proc.reported >= 1
        /\ proc.windows = 0
        /\ proc.pc # "loop"
        /\ ~proc.null_use
        /\ proc.pc = "done" => proc.status \in {"exit EXIT_FAILURE", "return -1"}

\* The windows created and not destroyed: window_create_internal gives them
\* the numbers 1, 2, ... in creation order.
LiveWindows == (1..(life.next - 1)) \ life.freed

\* C21: window_destroy releases the window's protocol surface and unlinks
\* the window; display->window_list holds exactly the windows created and not
\* yet destroyed, once each, in creation order.
C21_WindowListIsLiveWindowsInOrder ==
    /\ {life.window_list[i] : i \in DOMAIN life.window_list} = LiveWindows
    /\ \A i, j \in DOMAIN life.window_list :
          i < j => life.window_list[i] < life.window_list[j]
    /\ life.surfaces = LiveWindows

\* The first window was destroyed, and the windows created before and after
\* that are listed in creation order.
C21_Witness ==
    /\ life.freed = {1}
    /\ life.window_list = <<2, 3>>
    /\ life.surfaces = {2, 3}

\* window_get_surface: the window's drawable surface.
window_get_surface(win) == win.cairo_surface

\* The surfaces a window holds.
SurfacesOf(win) == {win.cairo_surface, win.pending_surface} \ {NULL}

\* C22: from its attach until its acknowledgment a surface is not the
\* client's to draw on and is not destroyed: window_get_surface never returns
\* the pending surface, the attached surface is the pending one, a step other
\* than free_surface keeps the pending surface as it is, and free_surface
\* destroys it (the window holds it no more).
C22_PendingSurfaceKeptUntilAcknowledged ==
    [][\A w \in Windows :
          /\ window'[w].pending_surface # NULL =>
                /\ window_get_surface(window'[w]) # window'[w].pending_surface
                /\ window'[w].attached_buffer = window'[w].pending_surface
          /\ window[w].pending_surface # NULL =>
                IF FreeSurface(w)
                THEN window[w].pending_surface \notin SurfacesOf(window'[w])
                ELSE window'[w].pending_surface = window[w].pending_surface]_vars

\* A surface is pending and the client has the next one to draw on.
C22_Witness ==
    \E w \in Windows :
        /\ window[w].buffer_type = "SHM"
        /\ window[w].pending_surface # NULL
        /\ window[w].attached_buffer = window[w].pending_surface
        /\ window_get_surface(window[w]) = last_drawn[w]
        /\ window_get_surface(window[w]) \notin {NULL, window[w].pending_surface}

\* A button is grabbed on the focus item.
ItemGrabbed == iwin.focus_item # NULL /\ iwin.item_grab_button # NoButton

\* The release of the grabbing button.
GrabRelease == ItemButton(iwin.item_grab_button, 0)

AddedItemsAt(x, y) ==
    {k \in DOMAIN ItemRects :
        /\ ItemRects[k].x <= x /\ x <= ItemRects[k].x + ItemRects[k].width - 1
        /\ ItemRects[k].y <= y /\ y <= ItemRects[k].y + ItemRects[k].height - 1}

\* C26: the item a motion event resolves is the earliest-added item whose
\* rectangle holds the pointer, also where items overlap, and no item where
\* none holds it.
C26_FindItemFirstAddedMatch ==
    [][\A sx \in ItemXs, sy \in ItemYs :
          (ItemMotion(sx, sy) /\ ~ItemGrabbed)
          => LET hit == AddedItemsAt(sx, sy)
                 found == iwin'.focus_item
             IN  IF hit = {} THEN found = NULL
                 ELSE /\ found # NULL
                      /\ \E k \in hit :
                            /\ Items[found] = ItemRects[k]
                            /\ \A j \in hit : k <= j]_vars

\* A motion to the left edge of the second item, inside the first, gave the
\* focus to the first.
C26_Witness ==
    /\ i_call.op = "motion"
    /\ ipointer.sx = 10
    /\ ipointer.sy = 0
    /\ AddedItemsAt(ipointer.sx, ipointer.sy) = {1, 2}
    /\ iwin.focus_item # NULL
    /\ Items[iwin.focus_item] = ItemRects[1]

\* The button event handled last was a press in the title bar or on a
\* resize grip of the decorated window.
PressOnFrame ==
    /\ PressOnDecorated
    /\ press.location \in ResizeLocations \cup {WINDOW_TITLEBAR}

\* C25 as claimed: a press in the title bar or on a resize grip of a
\* decorated window is not given to the button handler; every other press
\* and every release is given to it, if one is set, exactly once.
C25_FramePressesConsumedOthersDelivered ==
    press.button # "none" =>
        press.handler_calls = IF PressOnFrame THEN 0 ELSE CallButtonHandler(pwin)

\* The button event handled last was a press of the left button on a
\* display that has bound a shell.
LeftPressWithShell == shell /\ press.button = "BTN_LEFT" /\ press.state = 1

\* C25 amended: only a press of the left button on a display with a shell is
\* held back: in the title bar or on a grip it becomes a move or resize
\* request, at a location classified exterior it is dropped; such a press in
\* the client area, and every other press and every release at any location,
\* is given to the button handler, if one is set, exactly once, with its
\* button and state.
C25_LeftFramePressesConsumedWithShell ==
    press.button # "none" =>
        /\ press.location = get_pointer_location(pwin, input.sx, input.sy)
        /\ press.handler_calls =
              IF LeftPressWithShell /\ press.location # WINDOW_CLIENT_AREA
              THEN 0 ELSE CallButtonHandler(pwin)
        /\ press.request # <<"none">> <=> (LeftPressWithShell /\ PressOnFrame)

\* A press of the right button in the title bar, on a display with a shell,
\* was given to the button handler.
C25_Witness ==
    /\ shell
    /\ pwin.button_handler
    /\ PressOnFrame
    /\ press.location = WINDOW_TITLEBAR
    /\ press.button = "BTN_RIGHT"
    /\ press.handler_calls = 1
    /\ press.request = <<"none">>

\* C27: a cursor-attach request is sent only for an image that differs from
\* the device's current one, so the image of a request differs from that of
\* the request before it, unless the pointer left the window in between.
C27_CursorAttachOnlyOnChange ==
    [][cursor'.attach # "none" =>
          /\ cursor'.attach # cursor.current_pointer_image
          /\ cursor'.attach # cursor.shown
          /\ cursor'.current_pointer_image = cursor'.attach]_vars

\* A motion within the client area, for which the handler asked for the image
\* already shown, sent no request.
C27_Witness ==
    /\ cursor.pointer_focus
    /\ cursor.win.decoration = 1
    /\ cursor.sx = 260
    /\ cursor.attach = "none"
    /\ cursor.shown = "POINTER_IBEAM"
    /\ cursor.current_pointer_image = "POINTER_IBEAM"

\* The call of window w's keyboard-focus handler, if it has one, with a
\* device while the input device holds a mask.
FocusNote(w, device, mask) ==
    IF w # NULL /\ life.win[w].keyboard_focus_handler
    THEN <<[w |-> w, device |-> device, modifiers |-> mask]>>
    ELSE <<>>

\* C23: on a keyboard-focus event the window that had the focus is notified
\* first, with a null device and before the mask is reset, and its
\* keyboard_device is cleared; the mask becomes the OR over the keys of the
\* event alone; then the window of the surface, if any, gets the device as
\* keyboard_device and is notified with it; with no surface
\* keyboard_focus is null and no gain is notified.
C23_KeyboardFocusLossThenMaskThenGain ==
    [][\A surface \in {NULL} \cup (1..MaxWindows), keys \in FocusKeySets :
          (/\ life.keyboard_focus \notin life.freed
           /\ LifeKeyboardFocus(surface, keys))
          => /\ life'.keyboard_focus = surface
             /\ life'.modifiers = OrOver([k \in Keys |-> xkb.modmap[k]], keys)
             /\ \A w \in DOMAIN life'.win :
                   life'.win[w].keyboard_device =
                       IF w = surface THEN InputDevice ELSE NULL
             /\ life'.notes =
                   FocusNote(life.keyboard_focus, NULL, life.modifiers)
                   \o FocusNote(surface, InputDevice, life'.modifiers)]_vars

\* The focus went from the first window, whose mask was set, to the second
\* with no key pressed: the first was told with the old mask, then the second
\* with the new one.
C23_Witness ==
    /\ life.keyboard_focus = 2
    /\ life.notes = <<[w |-> 1, device |-> NULL, modifiers |-> 1],
                      [w |-> 2, device |-> InputDevice, modifiers |-> 0]>>

\* C30: after window_destroy(w) nothing of the toolkit refers to w: it is no
\* input device's pointer or keyboard focus, its redraw task is not deferred,
\* no acknowledgment is outstanding for it, and no event uses its memory.
C30_NoReferenceToDestroyedWindow ==
    /\ ~life.used_freed
    /\ \A w \in life.freed :
          /\ life.pointer_focus # w
          /\ life.keyboard_focus # w
          /\ \A i \in DOMAIN life.deferred_list : life.deferred_list[i] # w
          /\ \A i \in DOMAIN life.callbacks : life.callbacks[i] # w

\* C29: an out-of-range cursor index (or index plus length) from the
\* text-input service is reported to stderr and the operation is a no-op:
\* text_model_commit_string and text_model_delete_surrounding_text leave the
\* entry's text, cursor and anchor as they were.
C29_OutOfRangeIndexReportedNoOp ==
    [][editor'.call.out_of_range =>
          /\ editor'.call.stderr # <<>>
          /\ editor'.entry.text = editor.entry.text
          /\ editor'.entry.cursor = editor.entry.cursor
          /\ editor'.entry.anchor = editor.entry.anchor]_vars

\* C31: whenever display_run blocks in epoll_wait the deferred list is empty,
\* also for tasks deferred before display_run was called.
C31_DeferredListEmptyWhenWaiting ==
    phase = "wait" => deferred_list = <<>>

\* The input device after a key-press event for each key of a set, in any
\* order (BitOr is commutative), from the device inp.
RECURSIVE PressEach(_, _)
PressEach(inp, keys) ==
    IF keys = {} THEN inp
    ELSE LET k == CHOOSE k \in keys : TRUE
         IN  PressEach(window_handle_key(inp, k, 1), keys \ {k})

\* C32: the mask a keyboard-focus gain derives from the set of pressed keys
\* is the mask that a key-press event for each of these keys gives a device
\* with an empty mask: both handlers map a key number to the same modifier
\* bit.
C32_FocusMaskEqualsPressedKeysMask ==
    [][KeyboardFocus(TRUE) =>
          input_get_modifiers(kinput') =
             input_get_modifiers(
                PressEach([keyboard_focus |-> TRUE, modifiers |-> 0], held))]_vars

\* C33: with several input devices, after any interleaving of their
\* keyboard-focus events a window's keyboard_device is non-null exactly when
\* some device has the window as keyboard focus, and a key event of a device
\* whose keyboard focus is the window gets to the key handler and the
\* device's modifier mask.
C33_KeyboardDeviceIffSomeDeviceFocused ==
    /\ \A w \in DeviceWindows :
          devs.keyboard_device[w] # NULL
             <=> \E d \in Devices : devs.input[d].keyboard_focus = w
    /\ devs.call.op = "key" => devs.call.delivered

\* C34: after a pointer-focus enter event, and after every motion event
\* without an item grab, the window's focus item is the item window_find_item
\* returns for the device's surface-local position sx, sy.
C34_FocusItemIsItemAtSurfacePosition ==
    (\/ i_call.op = "enter"
     \/ i_call.op = "motion" /\ iwin.item_grab_button = NoButton)
    => iwin.focus_item = window_find_item(iwin, ipointer.sx, ipointer.sy)

\* C35: a window's item_grab_button is set only if the window has a focus
\* item; once the pointer has left the window (focus item cleared) or the
\* grabbing button is released it is 0.
C35_GrabOnlyWithFocusItem ==
    iwin.item_grab_button # NoButton => iwin.focus_item # NULL

\* C36: a configure event with width <= 0 or height <= 0 leaves all window
\* state unchanged and calls no handler; and handle_configure never calls
\* the resize handler with a width or height that is not positive.
C36_NonPositiveConfigureIgnored ==
    [][\A edges \in ConfigureEdges, width \in ResizeWidths,
          height \in ResizeHeights :
          GeomConfigure(edges, width, height) =>
             /\ (width <= 0 \/ height <= 0) =>
                   (gwin' = gwin /\ g_call'.resize_calls = 0)
             /\ g_call'.resize_args # <<>> =>
                   (g_call'.resize_args[1] > 0 /\ g_call'.resize_args[2] > 0)]_vars

\* C37: on a window whose resize handler applies the size it is given with
\* window_set_child_size, a configure event for the size (W, H) leaves the
\* allocation W wide and H high, whether the window is decorated or not.
C37_ConfigureSizeBecomesAllocation ==
    [][\A edges \in ConfigureEdges, width \in ResizeWidths,
          height \in ResizeHeights :
          (/\ GeomConfigure(edges, width, height)
           /\ width > 0 /\ height > 0
           /\ gwin.resize_handler = "apply")
          => /\ gwin'.allocation.width = width
             /\ gwin'.allocation.height = height]_vars

\* How many times window w's redraw task is linked in the deferred list.
TimesLinked(w) ==
    Cardinality({i \in DOMAIN deferred_list : deferred_list[i] = w})

\* C38: a window's redraw_scheduled flag is set exactly when its redraw task
\* is linked in the deferred list or its redraw handler is running, and the
\* task is never linked twice.
C38_ScheduledIffLinkedOrRunning ==
    \A w \in Windows :
       /\ window[w].redraw_scheduled = 1
             <=> (TimesLinked(w) > 0 \/ running = w)
       /\ TimesLinked(w) <= 1

\* C38 witness: window 1's handler is running, unlinked and still flagged,
\* while it has scheduled window 2, whose task is linked.
C38_Witness ==
    /\ running = 1
    /\ deferred_list = <<2>>
    /\ window[1].redraw_scheduled = 1
    /\ window[2].redraw_scheduled = 1

\* C39: after every attach the window's server_allocation width and height,
\* and the damage declared with the attach, are the dimensions of the buffer
\* attached, also when the attach waited behind a pending buffer and the
\* allocation changed between the drawing and the attach.
C39_ServerAllocationIsAttachedBufferSize ==
    g_call.attach # <<>> =>
       /\ <<gwin.server_allocation.width, gwin.server_allocation.height>>
             = g_call.buffer
       /\ g_call.damage = g_call.buffer

\* C40: the drain of each iteration of display_run terminates: the deferred
\* list gets empty after finitely many task runs and the loop goes back to
\* flushing and waiting, whatever the redraw handlers schedule.
C40_DrainTerminates ==
    (phase = "drain") ~> (phase = "wait")

====
